---- MODULE Spec2Model ----
(***************************************************************************)
(* Verification model of fin-report-reviewer.                              *)
(*                                                                         *)
(* Part 1: the report workflow (ReportGenerator.generate_report, the       *)
(* LangGraph graph of financial_report_graph.py and its eight nodes).      *)
(* Part 2: the lazily initialised client accessors (get_llm,               *)
(* get_db_service, get_retriever) called from concurrent invocations.      *)
(* Part 3: the Markdown chunker (MarkdownChunker.chunk_text).              *)
(* Part 4: the ingestion service (ReportIngestionService).                 *)
(* Part 5: the financial ratio tool (calculate_financial_ratios_tool).     *)
(*                                                                         *)
(* Python values are represented as follows.                               *)
(*   None            the empty tuple <<>>                                  *)
(*   a number v      the one-element tuple <<v>> where it may be None      *)
(*   a dict          a function from its keys; {} is the empty function    *)
(*   a list          a sequence                                            *)
(*   a percentage    an integer number of hundredths of a percent          *)
(*   a text          a record of the features the code reads from it       *)
(*   a Markdown text a sequence of tokens (Part 3): runs of characters the *)
(*                   chunker never looks into, spaces and newlines         *)
(***************************************************************************)
EXTENDS Integers, Sequences, FiniteSets, TLC

VARIABLES
    pc,          \* position of the generate_report call
    state,       \* the FinancialReportState of the running workflow
    result,      \* the dict generate_report returns
    executed,    \* the node executions the graph engine has made, in order
    llm,         \* module global _llm slot per accessor (Part 2)
    built,       \* the client objects constructed so far per accessor (Part 2)
    caller,      \* the position of every concurrent accessor call (Part 2)
    cancel,      \* the cancellation signal the caller has raised, if any
    chunk_in,    \* the call MarkdownChunker(max_chunk_chars).chunk_text(text)
    chunk_out,   \* the list of chunks that call returned (Part 3)
    collection,  \* the rows of the Milvus collection, in insertion order
    clock,       \* int(time.time()), in seconds from the first call
    ingest_out,  \* the ingestion calls made so far and what they returned
    ratio_in,    \* the arguments of calculate_financial_ratios_tool
    ratio_out,   \* the calculator it built and the dict it returned
    growth_in,   \* a current and a previous value of one indicator
    growth_out   \* the growth-rate calls made on them and what they returned

vars == <<pc, state, result, executed, llm, built, caller, cancel,
          chunk_in, chunk_out, collection, clock, ingest_out, ratio_in,
          ratio_out, growth_in, growth_out>>

wfVars == <<pc, state, result, executed>>
lazyVars == <<llm, built, caller>>
chunkVars == <<chunk_in, chunk_out>>
ingestVars == <<collection, clock, ingest_out>>
ratioVars == <<ratio_in, ratio_out>>
growthVars == <<growth_in, growth_out>>
otherVars == <<cancel, chunkVars, ingestVars, ratioVars, growthVars>>

---------------------------------------------------------------------------
(* Python values *)

None == <<>>
Some(v) == <<v>>
EmptyDict == [k \in {} |-> None]

Truthy(opt) == opt # None /\ opt[1] # 0

Abs(n) == IF n < 0 THEN -n ELSE n

\* round(n / d) to the nearest integer, ties to even, as Python's round does
RoundDiv(n, d) ==
    LET a == Abs(n)
        q == a \div d
        r == a % d
        m == IF 2 * r > d \/ (2 * r = d /\ q % 2 = 1) THEN q + 1 ELSE q
    IN IF n < 0 THEN -m ELSE m

Max(a, b) == IF a >= b THEN a ELSE b

---------------------------------------------------------------------------
(* The financial data the database can hold for the requested period *)

IncomeFields == {"revenue", "cost", "rd_expense", "sales_expense",
                 "net_profit", "net_profit_parent"}
BalanceFields == {"inventory", "contract_liability"}
CashFields == {"net_operating_cash_flow"}

IncomeAllNull == [f \in IncomeFields |-> None]
BalanceAllNull == [f \in BalanceFields |-> None]
CashAllNull == [f \in CashFields |-> None]

IncomeCurrent ==
    [revenue |-> Some(200), cost |-> Some(120), rd_expense |-> Some(20),
     sales_expense |-> Some(10), net_profit |-> Some(30),
     net_profit_parent |-> Some(25)]
IncomePrevious ==
    [revenue |-> Some(160), cost |-> Some(100), rd_expense |-> None,
     sales_expense |-> Some(8), net_profit |-> Some(0),
     net_profit_parent |-> Some(-5)]
IncomeZeroRevenue ==
    [revenue |-> Some(0), cost |-> Some(3), rd_expense |-> Some(2),
     sales_expense |-> None, net_profit |-> Some(-4),
     net_profit_parent |-> None]
BalanceCurrent == [inventory |-> Some(40), contract_liability |-> Some(12)]
BalancePrevious == [inventory |-> Some(50), contract_liability |-> None]
CashCurrent == [net_operating_cash_flow |-> Some(15)]

PreviousData ==
    [income_statement |-> IncomePrevious, balance_sheet |-> BalancePrevious,
     cash_flow |-> None]

\* what FinancialDataService.get_complete_financial_data can return
get_complete_financial_data ==
    { [income_statement |-> None, balance_sheet |-> None, cash_flow |-> None,
       previous_period |-> None, previous_data |-> None],
      [income_statement |-> None, balance_sheet |-> BalanceCurrent,
       cash_flow |-> None, previous_period |-> Some(1),
       previous_data |-> PreviousData],
      [income_statement |-> IncomeAllNull, balance_sheet |-> BalanceAllNull,
       cash_flow |-> CashAllNull, previous_period |-> None,
       previous_data |-> None],
      [income_statement |-> IncomeCurrent, balance_sheet |-> BalanceCurrent,
       cash_flow |-> CashCurrent, previous_period |-> None,
       previous_data |-> None],
      [income_statement |-> IncomeCurrent, balance_sheet |-> BalanceCurrent,
       cash_flow |-> CashCurrent, previous_period |-> Some(1),
       previous_data |-> PreviousData],
      [income_statement |-> IncomeZeroRevenue, balance_sheet |-> None,
       cash_flow |-> None, previous_period |-> None,
       previous_data |-> None] }

\* the outcomes of get_complete_financial_data_tool.invoke: it raises (the
\* database is unreachable) or returns a bundle
FetchOutcomes ==
    {[raised |-> TRUE]} \cup
    {[raised |-> FALSE, data |-> b] : b \in get_complete_financial_data}

---------------------------------------------------------------------------
(* IndicatorExtractor *)

\* a null field read as zero
_get_value_null_as_zero(data, key) ==
    IF data = None \/ key \notin DOMAIN data THEN None
    ELSE IF data[key] = None THEN Some(0) ELSE data[key]

_get_value(data, key) ==
    IF data = None \/ key \notin DOMAIN data THEN None ELSE data[key]

\* a growth rate that is defined on a positive base only
_calculate_growth_rate_on_positive_base(current, previous) ==
    IF current = None \/ previous = None THEN None
    ELSE IF previous[1] <= 0 THEN None
    ELSE Some(RoundDiv((current[1] - previous[1]) * 10000, previous[1]))

\* growth rate in hundredths of a percent, None when undefined
_calculate_growth_rate(current, previous) ==
    IF current = None \/ previous = None THEN None
    ELSE IF previous[1] = 0 THEN None
    ELSE Some(RoundDiv((current[1] - previous[1]) * 10000, Abs(previous[1])))

_calculate_gross_margin(income_statement) ==
    LET revenue == _get_value(income_statement, "revenue")
        cost == _get_value(income_statement, "cost")
    IN IF Truthy(revenue) /\ Truthy(cost)
       THEN Some(RoundDiv((revenue[1] - cost[1]) * 10000, revenue[1]))
       ELSE None

Statement(data, name) ==
    IF data = None THEN EmptyDict
    ELSE IF name \in DOMAIN data THEN data[name] ELSE EmptyDict

_extract_core_indicators(current_data, previous_data) ==
    LET cur == Statement(current_data, "income_statement")
        prev == Statement(previous_data, "income_statement")
        keys == {k \in {"revenue", "net_profit", "net_profit_parent"} :
                    _get_value(cur, k) # None}
    IN [k \in keys |->
          [current |-> _get_value(cur, k),
           previous |-> _get_value(prev, k),
           growth_rate |-> _calculate_growth_rate(_get_value(cur, k),
                                                  _get_value(prev, k))]]

\* expense ratio in hundredths of a percent
ExpenseRatio(expense, revenue) ==
    IF expense # None /\ Truthy(revenue)
    THEN Some(RoundDiv(expense[1] * 10000, Abs(revenue[1])) *
              (IF revenue[1] < 0 THEN -1 ELSE 1))
    ELSE None

_extract_auxiliary_indicators(current_data, previous_data) ==
    LET cur == Statement(current_data, "income_statement")
        prev == Statement(previous_data, "income_statement")
        gm == _calculate_gross_margin(cur)
        gmPrev == IF prev # EmptyDict THEN _calculate_gross_margin(prev)
                  ELSE None
        revenue == _get_value(cur, "revenue")
        revenuePrev == _get_value(prev, "revenue")
        expenseKeys == {k \in {"rd_expense", "sales_expense"} :
                           _get_value(cur, k) # None /\ Truthy(revenue)}
        keys == (IF gm # None THEN {"gross_margin"} ELSE {}) \cup expenseKeys
        Ratio(k) == ExpenseRatio(_get_value(cur, k), revenue)
        RatioPrev(k) == ExpenseRatio(_get_value(prev, k), revenuePrev)
    IN [k \in keys |->
          IF k = "gross_margin"
          THEN [current |-> gm, previous |-> gmPrev,
                change |-> IF gmPrev # None THEN Some(gm[1] - gmPrev[1])
                           ELSE None]
          ELSE [current |-> _get_value(cur, k),
                previous |-> _get_value(prev, k),
                ratio |-> Ratio(k),
                ratio_previous |-> RatioPrev(k),
                ratio_change |-> IF RatioPrev(k) # None
                                 THEN Some(Ratio(k)[1] - RatioPrev(k)[1])
                                 ELSE None]]

_extract_specific_indicators(current_data, previous_data) ==
    LET cur == Statement(current_data, "balance_sheet")
        prev == Statement(previous_data, "balance_sheet")
        keys == {k \in {"contract_liability", "inventory"} :
                    _get_value(cur, k) # None}
    IN [k \in keys |->
          [current |-> _get_value(cur, k),
           previous |-> _get_value(prev, k),
           change_rate |-> _calculate_growth_rate(_get_value(cur, k),
                                                  _get_value(prev, k)),
           change_amount |-> IF _get_value(prev, k) # None
                             THEN Some(_get_value(cur, k)[1] -
                                       _get_value(prev, k)[1])
                             ELSE None]]

extract_indicators(current_data, previous_data) ==
    [core |-> _extract_core_indicators(current_data, previous_data),
     auxiliary |-> _extract_auxiliary_indicators(current_data, previous_data),
     specific |-> _extract_specific_indicators(current_data, previous_data)]

---------------------------------------------------------------------------
(* Texts.  A text is described by the features quality_check_node reads:   *)
(* its length, the required sections it contains and the number of numeric *)
(* tokens in it; id tells apart the texts of different LLM responses.      *)

RequiredSections == {"core_conclusion", "itemized_analysis",
                     "overall_judgment", "investment_advice"}

Text(id, length, sections, numbers) ==
    [kind |-> "str", id |-> id, length |-> length, sections |-> sections,
     numbers |-> numbers]

EmptyText == Text(0, 0, {}, 0)

\* the literal "报告生成失败。" of generate_report_node: 7 characters, no
\* section, no digit
ReportFailedText == Text(0, 7, {}, 0)

\* AIMessage.content is declared Union[str, list]: a non-empty list of
\* content blocks
ListContent == [kind |-> "list"]

ReportLengths == {499, 500}
ReportNumbers == {4, 5}
ReportSections ==
    { {}, {"investment_advice"}, {"core_conclusion", "itemized_analysis"},
      RequiredSections \ {"overall_judgment"}, RequiredSections }

\* the contents an LLM response to the report prompt can carry at the
\* n-th execution of generate_report
ReportContents(n) ==
    {EmptyText, ListContent} \cup
    {Text(n, l, secs, k) : l \in ReportLengths, secs \in ReportSections,
                           k \in ReportNumbers}

\* chain.invoke raises, or returns a response with a content
ReportOutcomes(n) ==
    {[raised |-> TRUE]} \cup
    {[raised |-> FALSE, content |-> c] : c \in ReportContents(n)}

\* the analysis prompts: the call raises or returns an analysis text
AnalysisOutcomes ==
    {[raised |-> TRUE], [raised |-> FALSE, content |-> "analysis"]}

\* get_context_for_analysis_tool.invoke raises or returns a context
ContextOutcomes ==
    {[raised |-> TRUE], [raised |-> FALSE, content |-> "context"]}

---------------------------------------------------------------------------
(* graphs/state.py *)

create_initial_state ==
    [income_statement |-> None, balance_sheet |-> None, cash_flow |-> None,
     previous_period |-> None, previous_data |-> None,
     core_indicators |-> EmptyDict, auxiliary_indicators |-> EmptyDict,
     specific_indicators |-> EmptyDict, all_indicators |-> EmptyDict,
     milvus_context |-> "",
     core_analysis |-> "", auxiliary_analysis |-> "",
     specific_analysis |-> "",
     final_report |-> EmptyText, report_quality_score |-> 0,
     errors |-> <<>>, warnings |-> <<>>, processing_steps |-> <<>>,
     llm_calls |-> 0, tools_called |-> <<>>,
     processing_time |-> "0.0",
     current_step |-> "init", should_regenerate |-> FALSE,
     regeneration_count |-> 0]

\* the first two statements of every node
Enter(s, name) ==
    [s EXCEPT !.current_step = name,
              !.processing_steps = Append(@, name)]

---------------------------------------------------------------------------
(* nodes/data_nodes.py *)

fetch_financial_data_node(s, out) ==
    LET s1 == Enter(s, "fetch_financial_data")
    IN IF out.raised
       THEN [s1 EXCEPT !.errors = Append(@, "fetch_financial_data_failed")]
       ELSE LET s2 == [s1 EXCEPT
                         !.tools_called =
                             Append(@, "get_complete_financial_data_tool"),
                         !.income_statement = out.data.income_statement,
                         !.balance_sheet = out.data.balance_sheet,
                         !.cash_flow = out.data.cash_flow,
                         !.previous_period = out.data.previous_period,
                         !.previous_data = out.data.previous_data]
            IN IF s2.income_statement = None
               THEN [s2 EXCEPT !.errors = Append(@, "financial_data_not_found")]
               ELSE s2

\* retrieve_context_node recording a failed retrieval as an error
retrieve_context_records_error(s, out) ==
    LET s1 == Enter(s, "retrieve_context")
    IN IF out.raised
       THEN [s1 EXCEPT !.errors = Append(@, "retrieve_context_failed"),
                       !.milvus_context = ""]
       ELSE [s1 EXCEPT
               !.tools_called = Append(@, "get_context_for_analysis_tool"),
               !.milvus_context = out.content]

retrieve_context_node(s, out) ==
    LET s1 == Enter(s, "retrieve_context")
    IN IF out.raised
       THEN [s1 EXCEPT !.warnings = Append(@, "retrieve_context_failed"),
                       !.milvus_context = ""]
       ELSE [s1 EXCEPT
               !.tools_called = Append(@, "get_context_for_analysis_tool"),
               !.milvus_context = out.content]

---------------------------------------------------------------------------
(* nodes/calculation_nodes.py *)

\* calculate_indicators_node without its guard on state.errors
calculate_ignores_errors(s, raised) ==
    LET s1 == Enter(s, "calculate_indicators")
    IN IF raised
       THEN [s1 EXCEPT !.errors = Append(@, "calculate_indicators_failed")]
       ELSE LET indicators ==
                    extract_indicators(
                        [income_statement |-> s1.income_statement,
                         balance_sheet |-> s1.balance_sheet,
                         cash_flow |-> s1.cash_flow], s1.previous_data)
            IN [s1 EXCEPT
                  !.tools_called = Append(@, "calculate_all_indicators_tool"),
                  !.all_indicators = indicators,
                  !.core_indicators = indicators.core,
                  !.auxiliary_indicators = indicators.auxiliary,
                  !.specific_indicators = indicators.specific]

\* calculate_indicators_node returning before it records its step when it
\* skips the calculation
calculate_skips_silently(s, raised) ==
    IF s.errors # <<>> THEN s
    ELSE IF raised
    THEN [Enter(s, "calculate_indicators") EXCEPT
            !.errors = Append(@, "calculate_indicators_failed")]
    ELSE LET s1 == Enter(s, "calculate_indicators")
             indicators ==
                 extract_indicators(
                     [income_statement |-> s1.income_statement,
                      balance_sheet |-> s1.balance_sheet,
                      cash_flow |-> s1.cash_flow], s1.previous_data)
         IN [s1 EXCEPT
               !.tools_called = Append(@, "calculate_all_indicators_tool"),
               !.all_indicators = indicators,
               !.core_indicators = indicators.core,
               !.auxiliary_indicators = indicators.auxiliary,
               !.specific_indicators = indicators.specific]

\* raised: calculate_all_indicators_tool.invoke raises (IndicatorExtractor
\* rejects the industry)
calculate_indicators_node(s, raised) ==
    LET s1 == Enter(s, "calculate_indicators")
    IN IF s1.errors # <<>> THEN s1
       ELSE IF raised
       THEN [s1 EXCEPT !.errors = Append(@, "calculate_indicators_failed")]
       ELSE LET current_data ==
                    [income_statement |-> s1.income_statement,
                     balance_sheet |-> s1.balance_sheet,
                     cash_flow |-> s1.cash_flow]
                indicators == extract_indicators(current_data, s1.previous_data)
            IN [s1 EXCEPT
                  !.tools_called = Append(@, "calculate_all_indicators_tool"),
                  !.all_indicators = indicators,
                  !.core_indicators = indicators.core,
                  !.auxiliary_indicators = indicators.auxiliary,
                  !.specific_indicators = indicators.specific]

---------------------------------------------------------------------------
(* nodes/analysis_nodes.py *)

\* analyze_core_indicators_node without its guard on the core bucket
analyze_core_calls_llm_always(s, out) ==
    LET s1 == Enter(s, "analyze_core_indicators")
    IN IF out.raised
       THEN [s1 EXCEPT !.errors = Append(@, "core_analysis_failed"),
                       !.core_analysis = "analysis_failed"]
       ELSE [s1 EXCEPT !.core_analysis = out.content,
                       !.llm_calls = @ + 1]

analyze_core_indicators_node(s, out) ==
    LET s1 == Enter(s, "analyze_core_indicators")
    IN IF s1.core_indicators = EmptyDict
       THEN [s1 EXCEPT !.core_analysis = "core_indicators_missing"]
       ELSE IF out.raised
       THEN [s1 EXCEPT !.errors = Append(@, "core_analysis_failed"),
                       !.core_analysis = "analysis_failed"]
       ELSE [s1 EXCEPT !.core_analysis = out.content,
                       !.llm_calls = @ + 1]

analyze_auxiliary_indicators_node(s, out) ==
    LET s1 == Enter(s, "analyze_auxiliary_indicators")
    IN IF s1.auxiliary_indicators = EmptyDict
       THEN [s1 EXCEPT !.auxiliary_analysis = "auxiliary_indicators_missing"]
       ELSE IF out.raised
       THEN [s1 EXCEPT !.errors = Append(@, "auxiliary_analysis_failed"),
                       !.auxiliary_analysis = "analysis_failed"]
       ELSE [s1 EXCEPT !.auxiliary_analysis = out.content,
                       !.llm_calls = @ + 1]

analyze_specific_indicators_node(s, out) ==
    LET s1 == Enter(s, "analyze_specific_indicators")
    IN IF s1.specific_indicators = EmptyDict
       THEN [s1 EXCEPT !.specific_analysis = "no_specific_indicators"]
       ELSE IF out.raised
       THEN [s1 EXCEPT !.warnings = Append(@, "specific_analysis_failed"),
                       !.specific_analysis = "analysis_failed"]
       ELSE [s1 EXCEPT !.specific_analysis = out.content,
                       !.llm_calls = @ + 1]

---------------------------------------------------------------------------
(* nodes/report_nodes.py *)

\* generate_report_node leaving final_report alone when the LLM call fails
generate_report_keeps_report_on_failure(s, out) ==
    LET s1 == Enter(s, "generate_report")
    IN IF out.raised
       THEN [s1 EXCEPT !.errors = Append(@, "generate_report_failed")]
       ELSE [s1 EXCEPT !.final_report = out.content,
                       !.llm_calls = @ + 1]

\* generate_report_node forgetting the recorded errors when a report is
\* produced
generate_report_clears_errors(s, out) ==
    LET s1 == Enter(s, "generate_report")
    IN IF out.raised
       THEN [s1 EXCEPT !.errors = Append(@, "generate_report_failed"),
                       !.final_report = ReportFailedText]
       ELSE [s1 EXCEPT !.final_report = out.content,
                       !.errors = <<>>,
                       !.llm_calls = @ + 1]

generate_report_node(s, out) ==
    LET s1 == Enter(s, "generate_report")
    IN IF out.raised
       THEN [s1 EXCEPT !.errors = Append(@, "generate_report_failed"),
                       !.final_report = ReportFailedText]
       ELSE [s1 EXCEPT !.final_report = out.content,
                       !.llm_calls = @ + 1]

\* the bound off by one
max_regenerations_off_by_one == 2 + 1

max_regenerations == 2

ShortReportLength == 500
ShortReportPenalty == 20
MissingSectionPenalty == 15
MinNumbers == 5
FewNumbersPenalty == 10
PassScore == 60

\* not state["final_report"]: the empty string (or an empty list)
IsEmptyReport(report) == report.kind = "str" /\ report.length = 0

\* re.findall on a content that is not a string raises TypeError
QualityCheckRaises(s) ==
    ~IsEmptyReport(s.final_report) /\ s.final_report.kind # "str"

\* the score computed in lines 112-131, before the clamp of line 133
Score(report) ==
    100 - (IF report.length < ShortReportLength THEN ShortReportPenalty ELSE 0)
        - MissingSectionPenalty * Cardinality(RequiredSections \ report.sections)
        - (IF report.numbers < MinNumbers THEN FewNumbersPenalty ELSE 0)

\* quality_check_node without the early return for an empty report
quality_check_scores_empty(s) ==
    LET s1 == Enter(s, "quality_check")
        score == Score(s1.final_report)
        s2 == [s1 EXCEPT !.report_quality_score = Max(0, score)]
        s3 == IF score < PassScore /\
                 s2.regeneration_count < max_regenerations
              THEN [s2 EXCEPT !.should_regenerate = TRUE,
                              !.regeneration_count = @ + 1]
              ELSE [s2 EXCEPT !.should_regenerate = FALSE]
    IN [s3 EXCEPT !.processing_time = "elapsed"]

\* quality_check_node for a report it can score (it does not raise)
quality_check_node(s) ==
    LET s1 == Enter(s, "quality_check")
    IN IF IsEmptyReport(s1.final_report)
       THEN [s1 EXCEPT !.report_quality_score = 0,
                       !.should_regenerate = FALSE]
       ELSE LET score == Score(s1.final_report)
                s2 == [s1 EXCEPT !.report_quality_score = Max(0, score)]
                s3 == IF score < PassScore /\
                         s2.regeneration_count < max_regenerations
                      THEN [s2 EXCEPT !.should_regenerate = TRUE,
                                      !.regeneration_count = @ + 1]
                      ELSE [s2 EXCEPT !.should_regenerate = FALSE]
            IN [s3 EXCEPT !.processing_time = "elapsed"]

---------------------------------------------------------------------------
(* graphs/financial_report_graph.py *)

\* the route handing back the label of the edge instead of the node it maps to
route_returns_label(s) ==
    IF s.should_regenerate THEN "regenerate" ELSE "END"

route_after_quality_check(s) ==
    IF s.should_regenerate THEN "generate_report" ELSE "END"

\* the edges added by create_graph
NextNode(name) ==
    CASE name = "fetch_financial_data" -> "calculate_indicators"
      [] name = "calculate_indicators" -> "retrieve_context"
      [] name = "retrieve_context" -> "analyze_core_indicators"
      [] name = "analyze_core_indicators" -> "analyze_auxiliary_indicators"
      [] name = "analyze_auxiliary_indicators" -> "analyze_specific_indicators"
      [] name = "analyze_specific_indicators" -> "generate_report"
      [] name = "generate_report" -> "quality_check"

EntryPoint == "fetch_financial_data"

\* the engine runs node `name`, merges the state it returns and follows the
\* edge out of it
RunNode(name, s) ==
    /\ pc = name
    /\ state' = s
    /\ executed' = Append(executed, name)
    /\ pc' = NextNode(name)
    /\ UNCHANGED <<result, lazyVars, otherVars>>

---------------------------------------------------------------------------
(* analysis/report_generator.py *)

NoResult == [pending |-> TRUE]

\* lines 56-65: create the initial state and hand it to graph.invoke
Invoke ==
    /\ pc = "start"
    /\ state' = create_initial_state
    /\ pc' = EntryPoint
    /\ UNCHANGED <<result, executed, lazyVars, otherVars>>

FetchFinancialData ==
    \E out \in FetchOutcomes :
        RunNode("fetch_financial_data", fetch_financial_data_node(state, out))

CalculateIndicators ==
    \E raised \in BOOLEAN :
        RunNode("calculate_indicators",
                calculate_indicators_node(state, raised))

RetrieveContext ==
    \E out \in ContextOutcomes :
        RunNode("retrieve_context", retrieve_context_node(state, out))

AnalyzeCore ==
    \E out \in AnalysisOutcomes :
        RunNode("analyze_core_indicators",
                analyze_core_indicators_node(state, out))

AnalyzeAuxiliary ==
    \E out \in AnalysisOutcomes :
        RunNode("analyze_auxiliary_indicators",
                analyze_auxiliary_indicators_node(state, out))

AnalyzeSpecific ==
    \E out \in AnalysisOutcomes :
        RunNode("analyze_specific_indicators",
                analyze_specific_indicators_node(state, out))

\* the number of executions of `name` so far
Executions(name) ==
    Cardinality({i \in 1..Len(executed) : executed[i] = name})

GenerateReport ==
    \E out \in ReportOutcomes(Executions("generate_report") + 1) :
        RunNode("generate_report", generate_report_node(state, out))

\* quality_check returns and the conditional edge is followed
QualityCheck ==
    /\ pc = "quality_check"
    /\ ~QualityCheckRaises(state)
    /\ state' = quality_check_node(state)
    /\ executed' = Append(executed, "quality_check")
    /\ pc' = route_after_quality_check(state')
    /\ UNCHANGED <<result, lazyVars, otherVars>>

\* quality_check raises: the exception leaves graph.invoke
QualityCheckFails ==
    /\ pc = "quality_check"
    /\ QualityCheckRaises(state)
    /\ state' = Enter(state, "quality_check")
    /\ executed' = Append(executed, "quality_check")
    /\ pc' = "raised"
    /\ UNCHANGED <<result, lazyVars, otherVars>>

\* the result built without its quality_score entry
BuildResult_without_quality_score(final_state) ==
    [success |-> Len(final_state.errors) = 0,
     company_name |-> "company_name",
     company_code |-> "company_code",
     report_period |-> "report_period",
     industry |-> "industry",
     report |-> final_state.final_report,
     indicators |-> final_state.all_indicators,
     processing_time |-> "elapsed",
     generated_at |-> "end_time",
     llm_calls |-> final_state.llm_calls,
     tools_called |-> final_state.tools_called,
     processing_steps |-> final_state.processing_steps,
     errors |-> final_state.errors,
     warnings |-> final_state.warnings]

\* the result whose success also asks for an empty warnings list
BuildResult_warnings_fail(final_state) ==
    [success |-> Len(final_state.errors) = 0 /\ Len(final_state.warnings) = 0,
     company_name |-> "company_name",
     company_code |-> "company_code",
     report_period |-> "report_period",
     industry |-> "industry",
     report |-> final_state.final_report,
     indicators |-> final_state.all_indicators,
     processing_time |-> "elapsed",
     generated_at |-> "end_time",
     llm_calls |-> final_state.llm_calls,
     tools_called |-> final_state.tools_called,
     processing_steps |-> final_state.processing_steps,
     quality_score |-> final_state.report_quality_score,
     errors |-> final_state.errors,
     warnings |-> final_state.warnings]

\* lines 72-88: the result built from the final state
BuildResult(final_state) ==
    [success |-> Len(final_state.errors) = 0,
     company_name |-> "company_name",
     company_code |-> "company_code",
     report_period |-> "report_period",
     industry |-> "industry",
     report |-> final_state.final_report,
     indicators |-> final_state.all_indicators,
     processing_time |-> "elapsed",
     generated_at |-> "end_time",
     llm_calls |-> final_state.llm_calls,
     tools_called |-> final_state.tools_called,
     processing_steps |-> final_state.processing_steps,
     quality_score |-> final_state.report_quality_score,
     errors |-> final_state.errors,
     warnings |-> final_state.warnings]

\* lines 100-108: the result of the except branch
ExceptionResult ==
    [success |-> FALSE,
     error |-> "exception",
     company_name |-> "company_name",
     company_code |-> "company_code",
     report_period |-> "report_period",
     processing_time |-> "elapsed"]

\* graph.invoke returned: build and return the result
Return ==
    /\ pc = "END"
    /\ result' = BuildResult(state)
    /\ pc' = "returned"
    /\ UNCHANGED <<state, executed, lazyVars, otherVars>>

\* graph.invoke raised: the except branch returns
ReturnAfterException ==
    /\ pc = "raised"
    /\ result' = ExceptionResult
    /\ pc' = "returned"
    /\ UNCHANGED <<state, executed, lazyVars, otherVars>>

---------------------------------------------------------------------------
(* Part 2: lazily initialised clients.                                    *)
(* Each accessor is                                                        *)
(*     global _x                                                           *)
(*     if _x is None:                                                      *)
(*         _x = Client()                                                   *)
(*     return _x                                                           *)
(* and is called from the threads of concurrent invocations; a thread      *)
(* switch can fall between any two of its steps.                           *)

Accessors == {"analysis_nodes.get_llm", "report_nodes.get_llm",
              "get_db_service", "get_retriever"}

NumCallers == 2
Callers == 1..NumCallers

Idle == [at |-> "idle"]

LazyInit ==
    /\ llm = [a \in Accessors |-> None]
    /\ built = [a \in Accessors |-> 0]
    /\ caller = [c \in Callers |-> Idle]

\* a thread enters accessor a
Call(c, a) ==
    /\ caller[c].at = "idle"
    /\ caller' = [caller EXCEPT ![c] = [at |-> "check", acc |-> a]]
    /\ UNCHANGED <<llm, built, wfVars, otherVars>>

\* if _x is None
CheckNone(c) ==
    /\ caller[c].at = "check"
    /\ caller' = [caller EXCEPT ![c].at =
                     IF llm[caller[c].acc] = None THEN "construct"
                     ELSE "return"]
    /\ UNCHANGED <<llm, built, wfVars, otherVars>>

\* Client(): a new object, known by its serial number
Construct(c) ==
    /\ caller[c].at = "construct"
    /\ built' = [built EXCEPT ![caller[c].acc] = @ + 1]
    /\ caller' = [caller EXCEPT ![c] =
                     [at |-> "store", acc |-> caller[c].acc,
                      obj |-> built'[caller[c].acc]]]
    /\ UNCHANGED <<llm, wfVars, otherVars>>

\* _x = <the new object>
Store(c) ==
    /\ caller[c].at = "store"
    /\ llm' = [llm EXCEPT ![caller[c].acc] = Some(caller[c].obj)]
    /\ caller' = [caller EXCEPT ![c] = [at |-> "return", acc |-> caller[c].acc]]
    /\ UNCHANGED <<built, wfVars, otherVars>>

\* return _x
ReturnClient(c) ==
    /\ caller[c].at = "return"
    /\ caller' = [caller EXCEPT ![c] =
                     [at |-> "done", acc |-> caller[c].acc,
                      got |-> llm[caller[c].acc][1]]]
    /\ UNCHANGED <<llm, built, wfVars, otherVars>>

LazyNext ==
    \/ \E c \in Callers, a \in Accessors : Call(c, a)
    \/ \E c \in Callers : CheckNone(c)
    \/ \E c \in Callers : Construct(c)
    \/ \E c \in Callers : Store(c)
    \/ \E c \in Callers : ReturnClient(c)

---------------------------------------------------------------------------
(* The specifications *)

---------------------------------------------------------------------------
(* Part 3: MarkdownChunker.  A text is a sequence of tokens.  A token is a *)
(* run of characters the chunker treats as a unit: k is what the run is,   *)
(* n tells runs of one kind apart, len is its length in characters, bytes  *)
(* its length in UTF-8, and term says that the run ends with a sentence    *)
(* terminator of SENTENCE_PATTERN (one of the characters 。！？!?；;．. not     *)
(* followed by a digit).                                                   *)

Token(k, n, len, bytes, term) ==
    [k |-> k, n |-> n, len |-> len, bytes |-> bytes, term |-> term]

Sp == Token("sp", 0, 1, 1, FALSE)              \* " "
Nl == Token("nl", 0, 1, 1, FALSE)              \* "\n"
Fence == Token("fence", 0, 3, 3, FALSE)        \* "```"
Bullet == Token("bullet", 0, 1, 1, FALSE)      \* "-"
Hash(level) == Token("hash", level, level, level, FALSE)     \* "#" * level
Word(n, len, bytes, term) == Token("text", n, len, bytes, term)
\* the span <table ...>...</table>, whatever it holds between the tags
TableSpan(n, len, bytes) == Token("table", n, len, bytes, FALSE)
\* "[[TABLE_BLOCK_i]]" for a one-digit i
Placeholder(i) == Token("ph", i, 17, 17, FALSE)

IsSpace(t) == t.k \in {"sp", "nl"}

\* len(text)
RECURSIVE TextLen(_)
TextLen(text) ==
    IF text = <<>> THEN 0 ELSE Head(text).len + TextLen(Tail(text))

\* len(text.encode("utf-8"))
RECURSIVE TextBytes(_)
TextBytes(text) ==
    IF text = <<>> THEN 0 ELSE Head(text).bytes + TextBytes(Tail(text))

\* text.lstrip() and text.rstrip() over the characters in the set ks
RECURSIVE LStrip(_, _)
LStrip(text, ks) ==
    IF text # <<>> /\ Head(text).k \in ks THEN LStrip(Tail(text), ks) ELSE text

RECURSIVE RStrip(_, _)
RStrip(text, ks) ==
    IF text # <<>> /\ text[Len(text)].k \in ks
    THEN RStrip(SubSeq(text, 1, Len(text) - 1), ks)
    ELSE text

\* text.strip()
Strip(text) == RStrip(LStrip(text, {"sp", "nl"}), {"sp", "nl"})

\* text.strip("\n")
StripNl(text) == RStrip(LStrip(text, {"nl"}), {"nl"})

\* sep.join(parts)
RECURSIVE Join(_, _)
Join(sep, parts) ==
    IF parts = <<>> THEN <<>>
    ELSE IF Len(parts) = 1 THEN parts[1]
    ELSE parts[1] \o sep \o Join(sep, Tail(parts))

\* text.splitlines(): the lines without their newlines; a final newline
\* starts no further line
RECURSIVE SplitLinesFrom(_, _)
SplitLinesFrom(text, line) ==
    IF text = <<>> THEN (IF line = <<>> THEN <<>> ELSE <<line>>)
    ELSE IF Head(text).k = "nl"
         THEN <<line>> \o SplitLinesFrom(Tail(text), <<>>)
         ELSE SplitLinesFrom(Tail(text), Append(line, Head(text)))

SplitLines(text) == SplitLinesFrom(text, <<>>)

\* _extract_tables: every match of TABLE_PATTERN is replaced by a placeholder
\* on a line of its own and kept in the dict under that placeholder
RECURSIVE ExtractFrom(_, _, _)
ExtractFrom(text, safe_text, tables) ==
    IF text = <<>> THEN [safe_text |-> safe_text, tables |-> tables]
    ELSE IF Head(text).k = "table"
         THEN ExtractFrom(Tail(text),
                          safe_text \o <<Nl, Placeholder(Len(tables)), Nl>>,
                          Append(tables, Strip(<<Head(text)>>)))
         ELSE ExtractFrom(Tail(text), Append(safe_text, Head(text)), tables)

_extract_tables(text) == ExtractFrom(text, <<>>, <<>>)

\* table_map.get(key, default)
TableMapGet(tables, key, default) ==
    IF Len(key) = 1 /\ key[1].k = "ph" /\ key[1].n < Len(tables)
    THEN tables[key[1].n + 1]
    ELSE default

\* buffer_type = None, and the level = None of a block that is no heading
NoType == "none"
NoLevel == 0

Block(type, text, level, heading_text) ==
    [type |-> type, text |-> text, level |-> level,
     heading_text |-> heading_text]

\* blocks.append(Block(buffer_type or "paragraph", "\n".join(buffer)))
AppendBuffer(st) ==
    [st EXCEPT !.blocks =
        Append(@, Block(IF st.buffer_type = NoType THEN "paragraph"
                        ELSE st.buffer_type,
                        Join(<<Nl>>, st.buffer), NoLevel, <<>>))]

\* if buffer: append it as a block and reset buffer and buffer_type
FlushBuffer(st) ==
    IF st.buffer # <<>>
    THEN [AppendBuffer(st) EXCEPT !.buffer = <<>>, !.buffer_type = NoType]
    ELSE st

StartsWithFence(stripped) == stripped # <<>> /\ stripped[1].k = "fence"

\* re.match(r"^(#{1,6})\s+(.*)$", stripped)
IsHeadingLine(stripped) ==
    /\ Len(stripped) >= 2
    /\ stripped[1].k = "hash" /\ stripped[1].n \in 1..6
    /\ stripped[2].k = "sp"

\* stripped.startswith("[[TABLE_BLOCK_") and stripped.endswith("]]")
IsPlaceholderLine(stripped) ==
    /\ stripped # <<>>
    /\ stripped[1].k = "ph"
    /\ stripped[Len(stripped)].k = "ph"

\* re.match(r"^(\*|-|\+)\s+", stripped) or re.match(r"^\d+\.\s+", stripped)
IsListLine(stripped) ==
    /\ Len(stripped) >= 2
    /\ stripped[1].k = "bullet"
    /\ stripped[2].k = "sp"

\* one iteration of the loop of _split_into_blocks over the lines
SplitStep(st, line) ==
    LET stripped == Strip(line)
    IN  IF st.in_code_block
        THEN LET st1 == [st EXCEPT !.buffer = Append(@, line)]
             IN  IF StartsWithFence(stripped)
                 THEN [st1 EXCEPT
                         !.in_code_block = FALSE,
                         !.blocks = Append(@, Block("code",
                                       Join(<<Nl>>, st1.buffer), NoLevel, <<>>)),
                         !.buffer = <<>>, !.buffer_type = NoType]
                 ELSE st1
        ELSE IF StartsWithFence(stripped)
        THEN [FlushBuffer(st) EXCEPT !.in_code_block = TRUE,
                                     !.buffer = <<line>>,
                                     !.buffer_type = "code"]
        ELSE IF stripped = <<>>
        THEN FlushBuffer(st)
        ELSE IF IsHeadingLine(stripped)
        THEN [FlushBuffer(st) EXCEPT !.blocks =
                Append(@, Block("heading", stripped, stripped[1].n,
                                Strip(Tail(stripped))))]
        ELSE IF IsPlaceholderLine(stripped)
        THEN [FlushBuffer(st) EXCEPT !.blocks =
                Append(@, Block("table", stripped, NoLevel, <<>>))]
        ELSE IF IsListLine(stripped)
        THEN LET st1 == IF st.buffer_type \notin {NoType, "list"}
                        THEN [AppendBuffer(st) EXCEPT !.buffer = <<>>]
                        ELSE st
             IN  [st1 EXCEPT !.buffer_type = "list",
                             !.buffer = Append(@, line)]
        ELSE LET st1 == IF st.buffer_type \notin {NoType, "paragraph"}
                        THEN [AppendBuffer(st) EXCEPT !.buffer = <<>>,
                                                      !.buffer_type = NoType]
                        ELSE st
             IN  [st1 EXCEPT !.buffer_type = "paragraph",
                             !.buffer = Append(@, line)]

RECURSIVE SplitLoop(_, _)
SplitLoop(st, lines) ==
    IF lines = <<>> THEN st
    ELSE SplitLoop(SplitStep(st, Head(lines)), Tail(lines))

_split_into_blocks(text) ==
    LET st0 == [blocks |-> <<>>, buffer |-> <<>>, buffer_type |-> NoType,
                in_code_block |-> FALSE]
        st == SplitLoop(st0, SplitLines(text))
    IN  IF st.buffer # <<>> THEN AppendBuffer(st).blocks ELSE st.blocks

\* SENTENCE_PATTERN.findall(paragraph): a match is the shortest run of
\* characters other than newline that ends with a terminator or at the end
\* of the text.  Characters before a newline that no terminator follows on
\* their line are in no match.  (A terminator is never the first character
\* of a token, so a match has a character before it.)
RECURSIVE FindSentences(_, _)
FindSentences(text, run) ==
    IF text = <<>> THEN (IF run # <<>> THEN <<run>> ELSE <<>>)
    ELSE LET t == Head(text)
         IN  IF t.k = "nl"
             THEN IF Tail(text) = <<>> /\ run # <<>>
                  THEN <<run>>
                  ELSE FindSentences(Tail(text), <<>>)
             ELSE IF t.term
             THEN <<Append(run, t)>> \o FindSentences(Tail(text), <<>>)
             ELSE FindSentences(Tail(text), Append(run, t))

\* [x.strip() for x in xs if x.strip()]
RECURSIVE StripAll(_)
StripAll(xs) ==
    IF xs = <<>> THEN <<>>
    ELSE IF Strip(Head(xs)) = <<>> THEN StripAll(Tail(xs))
    ELSE <<Strip(Head(xs))>> \o StripAll(Tail(xs))

\* the loop of _split_by_sentence over the sentences
RECURSIVE SentenceLoop(_, _, _, _)
SentenceLoop(sentences, segments, buffer, max_chunk_chars) ==
    IF sentences = <<>>
    THEN IF buffer # <<>> THEN Append(segments, buffer) ELSE segments
    ELSE LET sent == Head(sentences)
             candidate == Strip(buffer \o <<Sp>> \o sent)
         IN  IF buffer = <<>>
             THEN SentenceLoop(Tail(sentences), segments, sent,
                               max_chunk_chars)
             ELSE IF TextLen(candidate) <= max_chunk_chars
             THEN SentenceLoop(Tail(sentences), segments, candidate,
                               max_chunk_chars)
             ELSE IF TextLen(sent) > max_chunk_chars
             THEN SentenceLoop(Tail(sentences),
                               segments \o <<buffer, sent>>, <<>>,
                               max_chunk_chars)
             ELSE SentenceLoop(Tail(sentences), Append(segments, buffer),
                               sent, max_chunk_chars)

_split_by_sentence(paragraph, max_chunk_chars) ==
    LET sentences == StripAll(FindSentences(paragraph, <<>>))
    IN  IF sentences = <<>> THEN <<paragraph>>
        ELSE SentenceLoop(sentences, <<>>, <<>>, max_chunk_chars)

_block_to_segments(block, max_chunk_chars) ==
    IF block.type \in {"paragraph", "list", "quote"}
    THEN LET text == Strip(block.text)
         IN  IF text = <<>> THEN <<>>
             ELSE IF TextLen(text) <= max_chunk_chars THEN <<text>>
             ELSE _split_by_sentence(text, max_chunk_chars)
    ELSE IF block.type = "code" THEN <<StripNl(block.text)>>
    ELSE <<block.text>>

RECURSIVE PopHeadings(_, _)
PopHeadings(stack, level) ==
    IF stack # <<>> /\ stack[Len(stack)].level >= level
    THEN PopHeadings(SubSeq(stack, 1, Len(stack) - 1), level)
    ELSE stack

\* _update_heading_stack pushing the heading on the stack as it is
_update_heading_stack_without_pop(stack, block) ==
    IF block.level = NoLevel THEN stack
    ELSE Append(stack,
                [level |-> block.level, title |-> block.heading_text,
                 line |-> Strip(block.text)])

_update_heading_stack(stack, block) ==
    IF block.level = NoLevel THEN stack
    ELSE Append(PopHeadings(stack, block.level),
                [level |-> block.level, title |-> block.heading_text,
                 line |-> Strip(block.text)])

\* [h.line for h in heading_stack] and [h.title for h in heading_stack]
HeadingLines(stack) == [i \in 1..Len(stack) |-> stack[i].line]
TitlePath(stack) == [i \in 1..Len(stack) |-> stack[i].title]

_compose_chunk_text(body, heading_lines) ==
    IF Strip(body) = <<>> THEN Join(<<Nl>>, heading_lines)
    ELSE IF heading_lines = <<>> THEN Strip(body)
    ELSE Strip(Join(<<Nl>>, heading_lines)) \o <<Nl, Nl>> \o Strip(body)

\* [part.strip("\n") for part in parts if part.strip()]
RECURSIVE BodyParts(_)
BodyParts(parts) ==
    IF parts = <<>> THEN <<>>
    ELSE IF Strip(Head(parts)) = <<>> THEN BodyParts(Tail(parts))
    ELSE <<StripNl(Head(parts))>> \o BodyParts(Tail(parts))

_join_body(parts) == Strip(Join(<<Nl, Nl>>, BodyParts(parts)))

\* "<table" in lowered and "</table>" in lowered; the keyword rules find no
\* keyword in the tokens of the model and answer "other"
_classify_chunk(text, title_path) ==
    IF \E i \in 1..Len(text) : text[i].k = "table" THEN "table" ELSE "other"

\* add_chunk without the increment of chunk_index
add_chunk_keeps_index(st, body) ==
    IF Strip(body) = <<>> THEN st
    ELSE LET title_path == TitlePath(st.heading_stack)
             chunk_text == _compose_chunk_text(Strip(body),
                               HeadingLines(st.heading_stack))
         IN  [st EXCEPT
                !.chunks = Append(@,
                    [chunk_id |-> [prefix |-> "ck_", index |-> st.chunk_index],
                     chunk_index |-> st.chunk_index,
                     chunk_text |-> chunk_text,
                     chunk_length |-> TextLen(chunk_text),
                     title_path |-> title_path,
                     title |-> IF title_path = <<>> THEN <<>>
                               ELSE title_path[Len(title_path)],
                     title_level |-> Len(title_path),
                     chunk_type |-> _classify_chunk(chunk_text, title_path)]),
                !.current_lines = <<>>,
                !.current_length = 0]

\* add_chunk (a closure of chunk_text): st holds heading_stack, chunks and
\* the nonlocal chunk_index, current_lines and current_length
add_chunk(st, body) ==
    IF Strip(body) = <<>> THEN st
    ELSE LET title_path == TitlePath(st.heading_stack)
             chunk_text == _compose_chunk_text(Strip(body),
                               HeadingLines(st.heading_stack))
         IN  [st EXCEPT
                !.chunks = Append(@,
                    [chunk_id |-> [prefix |-> "ck_", index |-> st.chunk_index],
                     chunk_index |-> st.chunk_index,
                     chunk_text |-> chunk_text,
                     chunk_length |-> TextLen(chunk_text),
                     title_path |-> title_path,
                     title |-> IF title_path = <<>> THEN <<>>
                               ELSE title_path[Len(title_path)],
                     title_level |-> Len(title_path),
                     chunk_type |-> _classify_chunk(chunk_text, title_path)]),
                !.chunk_index = @ + 1,
                !.current_lines = <<>>,
                !.current_length = 0]

flush_current_chunk(st) ==
    LET body == _join_body(st.current_lines)
    IN  IF body # <<>> THEN add_chunk(st, body) ELSE st

\* one iteration of the loop over the segments of a block
SegmentStep(st, seg, max_chunk_chars) ==
    LET segment == Strip(seg)
    IN  IF segment = <<>> THEN st
        ELSE IF TextLen(segment) > max_chunk_chars
        THEN add_chunk(flush_current_chunk(st), segment)
        ELSE LET st1 == IF /\ st.current_length # 0
                           /\ st.current_length + TextLen(segment) + 2
                                > max_chunk_chars
                        THEN flush_current_chunk(st)
                        ELSE st
             IN  [st1 EXCEPT
                    !.current_lines = Append(@, segment),
                    !.current_length = @ + TextLen(segment) + 2]

RECURSIVE SegmentLoop(_, _, _)
SegmentLoop(st, segments, max_chunk_chars) ==
    IF segments = <<>> THEN st
    ELSE SegmentLoop(SegmentStep(st, Head(segments), max_chunk_chars),
                     Tail(segments), max_chunk_chars)

\* one iteration of the loop of chunk_text over the blocks
BlockStep(st, block, tables, max_chunk_chars) ==
    IF block.type = "heading"
    THEN LET st1 == flush_current_chunk(st)
         IN  [st1 EXCEPT !.heading_stack =
                            _update_heading_stack(@, block)]
    ELSE IF block.type = "table"
    THEN add_chunk(flush_current_chunk(st),
                   TableMapGet(tables, Strip(block.text), block.text))
    ELSE SegmentLoop(st, _block_to_segments(block, max_chunk_chars),
                     max_chunk_chars)

RECURSIVE BlockLoop(_, _, _, _)
BlockLoop(st, blocks, tables, max_chunk_chars) ==
    IF blocks = <<>> THEN st
    ELSE BlockLoop(BlockStep(st, Head(blocks), tables, max_chunk_chars),
                   Tail(blocks), tables, max_chunk_chars)

\* the chunk of a document that holds headings and nothing else
HeadingOnlyChunk(heading_stack) ==
    LET heading_only == Join(<<Nl>>, HeadingLines(heading_stack))
    IN  [chunk_id |-> [prefix |-> "ck_", index |-> 0],
         chunk_index |-> 0,
         chunk_text |-> heading_only,
         chunk_length |-> TextLen(heading_only),
         title_path |-> TitlePath(heading_stack),
         title |-> heading_stack[Len(heading_stack)].title,
         title_level |-> Len(heading_stack),
         chunk_type |-> "other"]

\* MarkdownChunker(max_chunk_chars).chunk_text(markdown_text)
chunk_text(markdown_text, max_chunk_chars) ==
    LET extracted == _extract_tables(markdown_text)
        blocks == _split_into_blocks(extracted.safe_text)
        st0 == [heading_stack |-> <<>>, current_lines |-> <<>>,
                current_length |-> 0, chunks |-> <<>>, chunk_index |-> 0]
        st == flush_current_chunk(
                  BlockLoop(st0, blocks, extracted.tables, max_chunk_chars))
    IN  IF st.chunks = <<>> /\ st.heading_stack # <<>>
        THEN <<HeadingOnlyChunk(st.heading_stack)>>
        ELSE st.chunks

(* The Markdown texts given to the chunker: up to MaxLines lines, each of  *)
(* one of the kinds below.  The tokens of line i carry numbers that grow   *)
(* with i, so a token's number tells its place in the source.              *)

MaxLines == 3

LineKinds == {"blank", "h1", "h2", "fence", "table", "inline", "s", "frag",
              "ss", "cc", "long", "item"}

LineOf(kind, i) ==
    CASE kind = "blank" -> <<>>
      [] kind = "h1" -> <<Hash(1), Sp, Word(10 * i, 2, 2, FALSE)>>
      [] kind = "h2" -> <<Hash(2), Sp, Word(10 * i, 2, 2, FALSE)>>
      [] kind = "fence" -> <<Fence>>
      [] kind = "table" -> <<TableSpan(10 * i, 9000, 9000)>>
      [] kind = "inline" -> <<Word(10 * i, 3, 3, TRUE), Sp,
                              TableSpan(10 * i + 1, 20, 20), Sp,
                              Word(10 * i + 2, 3, 3, TRUE)>>
      [] kind = "s" -> <<Word(10 * i, 3, 3, TRUE)>>
      [] kind = "frag" -> <<Word(10 * i, 3, 9, FALSE)>>
      [] kind = "ss" -> <<Word(10 * i, 3, 3, TRUE), Sp, Sp,
                          Word(10 * i + 1, 3, 3, TRUE)>>
      [] kind = "cc" -> <<Word(10 * i, 3, 9, TRUE),
                          Word(10 * i + 1, 3, 9, TRUE)>>
      [] kind = "long" -> <<Word(10 * i, 3000, 9000, TRUE)>>
      [] kind = "item" -> <<Bullet, Sp, Word(10 * i, 3, 3, FALSE)>>

\* the text whose lines are of the given kinds
TextOf(kinds) ==
    Join(<<Nl>>, [i \in 1..Len(kinds) |-> LineOf(kinds[i], i)])

MarkdownTexts ==
    {TextOf(kinds) : kinds \in UNION {[1..n -> LineKinds] : n \in 1..MaxLines}}

MaxChunkChars == {6, 7}

NotCalled == <<>>

ChunkIdle ==
    /\ chunk_in = NotCalled
    /\ chunk_out = NotCalled

ChunkInputs ==
    /\ chunk_in \in [text : MarkdownTexts, max_chunk_chars : MaxChunkChars]
    /\ chunk_out = NotCalled

\* chunks = MarkdownChunker(max_chunk_chars).chunk_text(text)
ChunkText ==
    /\ chunk_in # NotCalled
    /\ chunk_out = NotCalled
    /\ chunk_out' = [chunks |-> chunk_text(chunk_in.text,
                                           chunk_in.max_chunk_chars)]
    /\ UNCHANGED <<chunk_in, cancel, wfVars, lazyVars, ingestVars, ratioVars, growthVars>>

---------------------------------------------------------------------------
(* Part 4: ReportIngestionService.  The text of a parsed PDF is the list   *)
(* of its lines (its paragraphs); a paragraph is described by its length   *)
(* after strip() and by the keyword it starts with, if any.  A text cut    *)
(* from the paragraphs is a sequence of pieces: a piece is the run of      *)
(* characters of paragraph p from offset a up to offset b, and the piece   *)
(* of paragraph 0 is the newline the code joins paragraphs with.           *)

CHUNK_SIZE == 500

Overlap == 50

MinChunkText == 20

Min(a, b) == IF a <= b THEN a ELSE b

Piece(p, a, b) == [p |-> p, a |-> a, b |-> b]

NewlinePiece == Piece(0, 0, 1)

\* len(text)
RECURSIVE PiecesLen(_)
PiecesLen(text) ==
    IF text = <<>> THEN 0
    ELSE (Head(text).b - Head(text).a) + PiecesLen(Tail(text))

\* text[-k:]
RECURSIVE LastChars(_, _)
LastChars(text, k) ==
    IF text = <<>> \/ k <= 0 THEN <<>>
    ELSE LET last == text[Len(text)]
             n == last.b - last.a
         IN  IF n >= k THEN <<Piece(last.p, last.b - k, last.b)>>
             ELSE LastChars(SubSeq(text, 1, Len(text) - 1), k - n)
                    \o <<last>>

\* text.strip(): the characters of a paragraph are no whitespace
RECURSIVE PiecesLStrip(_)
PiecesLStrip(text) ==
    IF text # <<>> /\ Head(text).p = 0 THEN PiecesLStrip(Tail(text))
    ELSE text

RECURSIVE PiecesRStrip(_)
PiecesRStrip(text) ==
    IF text # <<>> /\ text[Len(text)].p = 0
    THEN PiecesRStrip(SubSeq(text, 1, Len(text) - 1))
    ELSE text

PiecesStrip(text) == PiecesRStrip(PiecesLStrip(text))

\* for i in range(0, len(paragraph), chunk_size - overlap):
\*     chunks.append(paragraph[i:i + chunk_size])
ForcedSplit(p, len, chunk_size, overlap) ==
    LET step == chunk_size - overlap
        count == (len + step - 1) \div step
    IN  [j \in 1..count |->
            <<Piece(p, (j - 1) * step, Min((j - 1) * step + chunk_size, len))>>]

\* the loop of _split_text_smart over the paragraphs from the i-th on
RECURSIVE SplitParagraphs(_, _, _, _, _, _)
SplitParagraphs(paragraphs, i, chunks, current_chunk, chunk_size, overlap) ==
    IF i > Len(paragraphs)
    THEN IF current_chunk # <<>> THEN Append(chunks, current_chunk)
         ELSE chunks
    ELSE
      LET len == paragraphs[i].len
          paragraph == <<Piece(i, 0, len)>>
      IN  IF len = 0
          THEN SplitParagraphs(paragraphs, i + 1, chunks, current_chunk,
                               chunk_size, overlap)
          ELSE IF PiecesLen(current_chunk) + len > chunk_size
          THEN IF current_chunk # <<>>
               THEN SplitParagraphs(paragraphs, i + 1,
                        Append(chunks, current_chunk),
                        LastChars(current_chunk, overlap)
                          \o <<NewlinePiece>> \o paragraph,
                        chunk_size, overlap)
               ELSE SplitParagraphs(paragraphs, i + 1,
                        chunks \o ForcedSplit(i, len, chunk_size, overlap),
                        IF len > overlap THEN LastChars(paragraph, overlap)
                        ELSE paragraph,
                        chunk_size, overlap)
          ELSE SplitParagraphs(paragraphs, i + 1, chunks,
                   IF current_chunk # <<>>
                   THEN current_chunk \o <<NewlinePiece>> \o paragraph
                   ELSE paragraph,
                   chunk_size, overlap)

_split_text_smart(text, chunk_size) ==
    SplitParagraphs(text, 1, <<>>, <<>>, chunk_size, Overlap)

\* The keywords a paragraph can start with, in the order _identify_chunk_type
\* tests them: one keyword of the summary list (a word of 2 characters), one
\* of the business overview list (4 characters) and one of the corporate
\* governance list (3 characters).
KeywordTypes ==
    << [len |-> 2, type |-> "summary"],
       [len |-> 4, type |-> "business_overview"],
       [len |-> 3, type |-> "corporate_governance"] >>

\* kw in text
HasKeyword(text, paragraphs, k) ==
    \E j \in 1..Len(text) :
       /\ text[j].p # 0
       /\ paragraphs[text[j].p].kw = k
       /\ text[j].a = 0
       /\ text[j].b >= KeywordTypes[k].len

_identify_chunk_type(text, paragraphs) ==
    LET found == {k \in 1..Len(KeywordTypes) : HasKeyword(text, paragraphs, k)}
    IN  IF found = {} THEN "full_text"
        ELSE KeywordTypes[CHOOSE k \in found : \A m \in found : k <= m].type

\* f"{company_code}_{report_period}"
ReportId(company_code, report_period) == <<company_code, "_", report_period>>

\* hashlib.md5(f"{report_id}_{chunk_index}_{int(time.time())}").hexdigest():
\* the digest is represented by the three values it is computed from
_generate_chunk_id(report_id, chunk_index, now) ==
    [report_id |-> report_id, chunk_index |-> chunk_index, time |-> now]

\* No clock tick falls into a call, or one falls right before the chunk with
\* the given index gets its chunk_id.
TickPoints == {None, Some(0), Some(1)}

TimeAt(now, tick_at, chunk_index) ==
    IF tick_at # None /\ chunk_index >= tick_at[1] THEN now + 1 ELSE now

\* the loop of _extract_chunks over text_chunks from the j-th on
RECURSIVE ExtractLoop(_, _, _, _)
ExtractLoop(text_chunks, j, chunks, call) ==
    IF j > Len(text_chunks) THEN chunks
    ELSE
      LET text == text_chunks[j]
          chunk_index == Len(chunks)
      IN  IF PiecesLen(PiecesStrip(text)) > MinChunkText
          THEN ExtractLoop(text_chunks, j + 1,
                 Append(chunks,
                   [chunk_id |-> _generate_chunk_id(call.report_id, chunk_index,
                                    TimeAt(call.now, call.tick_at, chunk_index)),
                    chunk_text |-> PiecesStrip(text),
                    report_id |-> call.report_id,
                    company_name |-> call.company_name,
                    company_code |-> call.company_code,
                    report_period |-> call.report_period,
                    chunk_type |-> _identify_chunk_type(text, call.paragraphs),
                    chunk_index |-> chunk_index,
                    page_number |-> -1,
                    file_path |-> call.file_path,
                    created_at |-> call.now]),
                 call)
          ELSE ExtractLoop(text_chunks, j + 1, chunks, call)

_extract_chunks(parsed_data, company_name, company_code, report_period, file_path, now, tick_at) ==
    IF parsed_data.text = <<>> THEN <<>>
    ELSE ExtractLoop(_split_text_smart(parsed_data.text, CHUNK_SIZE), 1, <<>>,
            [report_id |-> ReportId(company_code, report_period),
             company_name |-> company_name,
             company_code |-> company_code,
             report_period |-> report_period,
             file_path |-> file_path,
             paragraphs |-> parsed_data.text,
             now |-> now,
             tick_at |-> tick_at])

\* embedding_service.encode gives one vector per text or raises; the log line
\* after it reads embeddings[0]
_generate_embeddings(texts, encode_ok) ==
    IF ~encode_ok THEN [raised |-> "RuntimeError", embeddings |-> <<>>]
    ELSE IF texts = <<>> THEN [raised |-> "IndexError", embeddings |-> <<>>]
    ELSE [raised |-> "none",
          embeddings |-> [i \in 1..Len(texts) |-> [vector_of |-> texts[i]]]]

\* c["chunk_id"] is defined for a dict and raises TypeError for a str
IsDict(c) == "chunk_id" \in DOMAIN c

\* collection.insert(entities) adds one row per chunk; it does not look for
\* rows that are already stored
_store_to_milvus(rows, chunks, embeddings, insert_ok) ==
    IF \E i \in 1..Len(chunks) : ~IsDict(chunks[i])
    THEN [raised |-> "TypeError", collection |-> rows]
    ELSE IF ~insert_ok
    THEN [raised |-> "MilvusException", collection |-> rows]
    ELSE [raised |-> "none",
          collection |-> rows \o
             [i \in 1..Len(chunks) |->
                 [chunk_id |-> chunks[i].chunk_id,
                  embedding |-> embeddings[i],
                  chunk_text |-> chunks[i].chunk_text,
                  report_id |-> chunks[i].report_id,
                  company_name |-> chunks[i].company_name,
                  company_code |-> chunks[i].company_code,
                  report_period |-> chunks[i].report_period,
                  chunk_type |-> chunks[i].chunk_type,
                  chunk_index |-> chunks[i].chunk_index,
                  page_number |-> chunks[i].page_number,
                  file_path |-> chunks[i].file_path,
                  created_at |-> chunks[i].created_at]]]

Raise(rows, now, error) ==
    [collection |-> rows, clock |-> now, result |-> [error |-> error]]

RECURSIVE ChunkTexts(_)
ChunkTexts(chunks) ==
    IF chunks = <<>> THEN <<>>
    ELSE <<Head(chunks).chunk_text>> \o ChunkTexts(Tail(chunks))

\* ingest_pdf: what it leaves in the collection, the time when it ends and
\* the dict it returns or the exception it raises
ingest_pdf(rows, pdf, company_name, company_code, report_period, now, tick_at, encode_ok, insert_ok) ==
    IF ~pdf.exists THEN Raise(rows, now, "FileNotFoundError")
    ELSE
      LET chunks == _extract_chunks(pdf.parsed_data, company_name,
                       company_code, report_period, pdf.path, now, tick_at)
          end == IF chunks = <<>> THEN now
                 ELSE chunks[Len(chunks)].chunk_id.time
      IN  IF chunks = <<>> THEN Raise(rows, end, "ValueError")
          ELSE
            LET e == _generate_embeddings(ChunkTexts(chunks), encode_ok)
                s == _store_to_milvus(rows, chunks, e.embeddings, insert_ok)
            IN  IF e.raised # "none" THEN Raise(rows, end, e.raised)
                ELSE IF s.raised # "none" THEN Raise(rows, end, s.raised)
                ELSE [collection |-> s.collection,
                      clock |-> end,
                      result |->
                        [status |-> "success",
                         report_id |-> ReportId(company_code, report_period),
                         company_name |-> company_name,
                         company_code |-> company_code,
                         report_period |-> report_period,
                         chunks_count |-> Len(chunks),
                         file_path |-> pdf.path]]

\* ingest_markdown: chunks is the list of the texts (str) of the chunks the
\* docling HierarchicalChunker yields for the document
ingest_markdown(rows, markdown, company_name, company_code, report_period, now, encode_ok, insert_ok) ==
    IF ~markdown.exists THEN Raise(rows, now, "FileNotFoundError")
    ELSE
      LET chunks == markdown.chunks
          e == _generate_embeddings(chunks, encode_ok)
          s == _store_to_milvus(rows, chunks, e.embeddings, insert_ok)
      IN  IF e.raised # "none" THEN Raise(rows, now, e.raised)
          ELSE IF s.raised # "none" THEN Raise(rows, now, s.raised)
          ELSE [collection |-> s.collection,
                clock |-> now,
                result |->
                  [status |-> "success",
                   report_id |-> ReportId(company_code, report_period),
                   company_name |-> company_name,
                   company_code |-> company_code,
                   report_period |-> report_period]]

\* delete_report: collection.delete('report_id == "..."')
delete_report(rows, report_id, delete_ok) ==
    IF delete_ok
    THEN [collection |-> SelectSeq(rows, LAMBDA r : r.report_id # report_id),
          result |-> [returned |-> TRUE]]
    ELSE [collection |-> rows, result |-> [returned |-> FALSE]]

(* The files, companies and periods of the ingestion calls *)

Paragraph(len, kw) == [len |-> len, kw |-> kw]

PdfTexts ==
    { <<>>,
      <<Paragraph(10, 0)>>,
      <<Paragraph(0, 0), Paragraph(60, 1)>>,
      <<Paragraph(480, 2), Paragraph(60, 3)>>,
      <<Paragraph(1000, 0)>> }

PdfFiles ==
    {[path |-> "missing.pdf", exists |-> FALSE, parsed_data |-> [text |-> <<>>]]}
    \cup {[path |-> "report.pdf", exists |-> TRUE, parsed_data |-> [text |-> t]]
            : t \in PdfTexts}

\* the str of the i-th chunk of a Markdown document
MarkdownChunk(i) == [str |-> <<Piece(i, 0, 30)>>]

MarkdownFiles ==
    {[path |-> "missing.md", exists |-> FALSE, chunks |-> <<>>]}
    \cup {[path |-> "report.md", exists |-> TRUE, chunks |-> c]
            : c \in {<<>>, <<MarkdownChunk(1)>>,
                     <<MarkdownChunk(1), MarkdownChunk(2)>>}}

CompanyName == "Bank"

CompanyCode == "600000.SH"

ReportPeriods == {"2024-09-30", "2024-12-31"}

MaxCalls == 2

MaxClock == 2

IngestIdle ==
    /\ collection = <<>>
    /\ clock = 0
    /\ ingest_out = <<>>

\* result = ingestion_service.ingest_pdf(pdf_path, company_name,
\*                                        company_code, report_period)
IngestPdf ==
    /\ Len(ingest_out) < MaxCalls
    /\ \E pdf \in PdfFiles, report_period \in ReportPeriods,
          tick_at \in TickPoints, encode_ok \in BOOLEAN, insert_ok \in BOOLEAN :
          LET r == ingest_pdf(collection, pdf, CompanyName, CompanyCode,
                              report_period, clock, tick_at, encode_ok,
                              insert_ok)
          IN  /\ r.clock <= MaxClock
              /\ collection' = r.collection
              /\ clock' = r.clock
              /\ ingest_out' = Append(ingest_out,
                    [op |-> "ingest_pdf",
                     file |-> pdf,
                     services_ok |-> encode_ok /\ insert_ok,
                     report_id |-> ReportId(CompanyCode, report_period),
                     chunks |-> Len(_extract_chunks(pdf.parsed_data,
                                   CompanyName, CompanyCode, report_period,
                                   pdf.path, clock, tick_at)),
                     result |-> r.result])
    /\ UNCHANGED <<wfVars, lazyVars, cancel, chunkVars, ratioVars, growthVars>>

\* result = ingestion_service.ingest_markdown(markdown_path, company_name,
\*                                             company_code, report_period)
IngestMarkdown ==
    /\ Len(ingest_out) < MaxCalls
    /\ \E markdown \in MarkdownFiles, report_period \in ReportPeriods,
          encode_ok \in BOOLEAN, insert_ok \in BOOLEAN :
          LET r == ingest_markdown(collection, markdown, CompanyName,
                                   CompanyCode, report_period, clock,
                                   encode_ok, insert_ok)
          IN  /\ collection' = r.collection
              /\ ingest_out' = Append(ingest_out,
                    [op |-> "ingest_markdown",
                     file |-> markdown,
                     services_ok |-> encode_ok /\ insert_ok,
                     report_id |-> ReportId(CompanyCode, report_period),
                     chunks |-> Len(markdown.chunks),
                     result |-> r.result])
    /\ UNCHANGED <<clock, wfVars, lazyVars, cancel, chunkVars, ratioVars, growthVars>>

\* ingestion_service.delete_report(report_id)
DeleteReport ==
    /\ Len(ingest_out) < MaxCalls
    /\ \E report_period \in ReportPeriods, delete_ok \in BOOLEAN :
          LET r == delete_report(collection,
                                 ReportId(CompanyCode, report_period), delete_ok)
          IN  /\ collection' = r.collection
              /\ ingest_out' = Append(ingest_out,
                    [op |-> "delete_report",
                     file |-> [path |-> "", exists |-> FALSE],
                     services_ok |-> delete_ok,
                     report_id |-> ReportId(CompanyCode, report_period),
                     chunks |-> 0,
                     result |-> r.result])
    /\ UNCHANGED <<clock, wfVars, lazyVars, cancel, chunkVars, ratioVars, growthVars>>

\* a second of time.time() passes between two calls
Tick ==
    /\ clock < MaxClock
    /\ clock' = clock + 1
    /\ UNCHANGED <<collection, ingest_out, wfVars, lazyVars, cancel,
                   chunkVars, ratioVars, growthVars>>

---------------------------------------------------------------------------
(* Part 5: tools/financial_ratio_analyzer.py.  A float is represented by   *)
(* the fraction n/d (d > 0) in lowest terms, so 4.0 / 3.0 is the fraction  *)
(* 4/3 and round(x, k) is a fraction over 10^k; an Optional[float] is None *)
(* or Some(fraction).  A raw value of a statement dict is a record that    *)
(* says what kind of Python value it is.  The name, formula, unit and      *)
(* required_fields entries of the result dicts are fixed texts and are     *)
(* left out.                                                               *)

Frac(n, d) == [n |-> n, d |-> d]

RECURSIVE GCD(_, _)
GCD(a, b) == IF b = 0 THEN a ELSE GCD(b, a % b)

Reduce(n, d) ==
    LET g == GCD(Abs(n), Abs(d))
        sign == IF (n < 0) # (d < 0) THEN -1 ELSE 1
    IN  Frac(sign * (Abs(n) \div g), Abs(d) \div g)

Number(v) == Frac(v, 1)

FAdd(x, y) == Reduce(x.n * y.d + y.n * x.d, x.d * y.d)
FSub(x, y) == Reduce(x.n * y.d - y.n * x.d, x.d * y.d)
FMul(x, y) == Reduce(x.n * y.n, x.d * y.d)
FDiv(x, y) == Reduce(x.n * y.d, x.d * y.n)

RECURSIVE Pow10(_)
Pow10(k) == IF k = 0 THEN 1 ELSE 10 * Pow10(k - 1)

\* round(x, decimal_places)
Round(x, decimal_places) ==
    Reduce(RoundDiv(x.n * Pow10(decimal_places), x.d), Pow10(decimal_places))

\* a or b, for Optional[float] operands
PyOr(a, b) == IF a # None /\ a[1].n # 0 THEN a ELSE b

\* a or 0.0
OrZero(a) == IF a # None /\ a[1].n # 0 THEN a[1] ELSE Number(0)

\* The raw values: None, an int / float / Decimal, float('nan'), a str that
\* float() parses after commas and blanks are removed, a str that is empty
\* after that, a str that float() rejects, and a value of another type.
RawKinds == {"none", "number", "nan", "text", "blank", "word", "other"}

Raw(kind, v) == [kind |-> kind, v |-> v]

Num(v) == Raw("number", v)

_safe_float(value) ==
    IF value.kind \in {"number", "text"} THEN Some(Number(value.v)) ELSE None

_safe_divide(numerator, denominator, scale, decimal_places) ==
    IF numerator = None \/ denominator = None THEN None
    ELSE IF denominator[1].n = 0 THEN None
    ELSE Some(Round(FMul(FDiv(numerator[1], denominator[1]), Number(scale)),
                    decimal_places))

_avg(a, b) ==
    IF a = None /\ b = None THEN None
    ELSE IF a = None THEN b
    ELSE IF b = None THEN a
    ELSE Some(FDiv(FAdd(a[1], b[1]), Number(2)))

\* A report_period: iso says that the string has the form YYYY-MM-DD, which
\* is what datetime.strptime(report_period, "%Y-%m-%d") accepts; month is the
\* month of the date the string denotes (0 when it denotes none).
Period(text, iso, month) == [text |-> text, iso |-> iso, month |-> month]

_annualization_factor(report_period) ==
    IF ~report_period.iso THEN Number(1)
    ELSE CASE report_period.month = 3 -> Number(4)
           [] report_period.month = 6 -> Number(2)
           [] report_period.month = 9 -> Frac(4, 3)
           [] report_period.month = 12 -> Number(1)
           [] OTHER -> Number(1)

_is_quarterly(report_period) ==
    IF ~report_period.iso THEN FALSE ELSE report_period.month # 12

\* data.get(key)
Get(data, key) == IF key \in DOMAIN data THEN data[key] ELSE Raw("none", 0)

_g(data, key) == _safe_float(Get(data, key))

\* _RatioCalculator.__init__
RatioCalculator(income, balance, cash_flow, prev_balance, report_period) ==
    [income |-> income,
     balance |-> balance,
     cash_flow |-> cash_flow,
     prev_balance |-> IF prev_balance = None THEN EmptyDict
                      ELSE prev_balance[1],
     report_period |-> report_period,
     ann |-> _annualization_factor(report_period),
     quarterly |-> _is_quarterly(report_period)]

_i(self, key) == _g(self.income, key)
_b(self, key) == _g(self.balance, key)
_pb(self, key) == _g(self.prev_balance, key)
_cf(self, key) == _g(self.cash_flow, key)
_b_avg(self, key) == _avg(_b(self, key), _pb(self, key))

_core_profit(self) ==
    LET revenue == _i(self, "revenue")
        cost == _i(self, "cost")
    IN  IF revenue = None \/ cost = None THEN None
        ELSE Some(FSub(FSub(revenue[1], cost[1]),
                       FAdd(FAdd(OrZero(_i(self, "business_tax")),
                                 OrZero(_i(self, "sales_expense"))),
                            FAdd(OrZero(_i(self, "admin_expense")),
                                 OrZero(_i(self, "rd_expense"))))))

\* x * self.ann if self.quarterly else x, for an x that is not None
Annualized(self, x) ==
    IF x = None THEN None
    ELSE IF self.quarterly THEN Some(FMul(x[1], self.ann)) ELSE x

gross_margin(self) ==
    LET revenue == _i(self, "revenue")
        cost == _i(self, "cost")
        value == _safe_divide(IF revenue # None /\ cost # None
                              THEN Some(FSub(revenue[1], cost[1])) ELSE None,
                              revenue, 100, 2)
    IN  [value |-> value, available |-> value # None]

core_profit_margin(self) ==
    LET revenue == _i(self, "revenue")
        cp == _core_profit(self)
        value == _safe_divide(cp, revenue, 100, 2)
    IN  [value |-> value, core_profit |-> cp, available |-> value # None]

return_on_total_assets(self) ==
    LET total_profit == _i(self, "total_profit")
        interest_expense == PyOr(_i(self, "interest_expense"),
                                 _i(self, "finance_expense"))
        avg_assets == _b_avg(self, "total_assets")
        ebit0 == IF total_profit # None
                 THEN Some(FAdd(total_profit[1], OrZero(interest_expense)))
                 ELSE None
        ebit == IF ebit0 # None /\ self.quarterly
                THEN Some(FMul(ebit0[1], self.ann)) ELSE ebit0
        value == _safe_divide(ebit, avg_assets, 100, 2)
    IN  [value |-> value, ebit |-> ebit, avg_total_assets |-> avg_assets,
         annualized |-> self.quarterly, available |-> value # None]

return_on_equity_available_by_profit(self) ==
    LET net_profit == _i(self, "net_profit")
        avg_equity == _b_avg(self, "total_equity")
        net_profit_ann == Annualized(self, net_profit)
        value == _safe_divide(net_profit_ann, avg_equity, 100, 2)
    IN  [value |-> value, net_profit_annualized |-> net_profit_ann,
         avg_equity |-> avg_equity, annualized |-> self.quarterly,
         available |-> net_profit # None]

return_on_equity(self) ==
    LET net_profit == _i(self, "net_profit")
        avg_equity == _b_avg(self, "total_equity")
        net_profit_ann == Annualized(self, net_profit)
        value == _safe_divide(net_profit_ann, avg_equity, 100, 2)
    IN  [value |-> value, net_profit_annualized |-> net_profit_ann,
         avg_equity |-> avg_equity, annualized |-> self.quarterly,
         available |-> value # None]

inventory_turnover(self) ==
    LET cost == _i(self, "cost")
        avg_inventory == _b_avg(self, "inventory")
        cost_ann == Annualized(self, cost)
        value == _safe_divide(cost_ann, avg_inventory, 1, 4)
    IN  [value |-> value, cost_annualized |-> cost_ann,
         avg_inventory |-> avg_inventory, annualized |-> self.quarterly,
         available |-> value # None]

fixed_asset_turnover(self) ==
    LET revenue == _i(self, "revenue")
        avg_fixed == _b_avg(self, "fixed_assets")
        revenue_ann == Annualized(self, revenue)
        value == _safe_divide(revenue_ann, avg_fixed, 1, 4)
    IN  [value |-> value, revenue_annualized |-> revenue_ann,
         avg_fixed_assets |-> avg_fixed, annualized |-> self.quarterly,
         available |-> value # None]

investment_keys ==
    << "trading_financial_assets", "available_for_sale_assets",
       "held_to_maturity_investments", "long_term_equity_investment",
       "debt_investments", "other_equity_instruments_invest",
       "other_noncurrent_financial_assets" >>

\* sum(v for k in keys if (v := _g(d, k)) is not None)
RECURSIVE SumValid(_, _)
SumValid(d, keys) ==
    IF keys = <<>> THEN Number(0)
    ELSE LET v == _g(d, Head(keys))
         IN  IF v # None THEN FAdd(v[1], SumValid(d, Tail(keys)))
             ELSE SumValid(d, Tail(keys))

_investment_assets(d) ==
    LET total_assets == _g(d, "total_assets")
    IN  IF total_assets = None THEN None
        ELSE Some(FSub(total_assets[1], SumValid(d, investment_keys)))

operating_asset_turnover(self) ==
    LET revenue == _i(self, "revenue")
        revenue_ann == Annualized(self, revenue)
        op_assets_curr == _investment_assets(self.balance)
        op_assets_prev == IF DOMAIN self.prev_balance # {}
                          THEN _investment_assets(self.prev_balance)
                          ELSE None
        avg_op_assets == _avg(op_assets_curr, op_assets_prev)
        value == _safe_divide(revenue_ann, avg_op_assets, 1, 4)
    IN  [value |-> value, revenue_annualized |-> revenue_ann,
         avg_operating_assets |-> avg_op_assets,
         operating_assets_current |-> op_assets_curr,
         annualized |-> self.quarterly, available |-> value # None]

current_ratio(self) ==
    LET current_assets == _b(self, "current_assets")
        current_liabilities == _b(self, "current_liabilities")
        value == _safe_divide(current_assets, current_liabilities, 1, 4)
    IN  [value |-> value, current_assets |-> current_assets,
         current_liabilities |-> current_liabilities,
         available |-> value # None]

debt_to_asset_ratio(self) ==
    LET total_liabilities == _b(self, "total_liabilities")
        total_assets == _b(self, "total_assets")
        value == _safe_divide(total_liabilities, total_assets, 100, 2)
    IN  [value |-> value, total_liabilities |-> total_liabilities,
         total_assets |-> total_assets, available |-> value # None]

financial_liability_keys ==
    << "short_term_borrowing", "trading_financial_liabilities",
       "current_noncurrent_liabilities", "long_term_borrowing",
       "bonds_payable", "lease_liabilities" >>

financial_liability_ratio(self) ==
    LET total_assets == _b(self, "total_assets")
        available_values == [i \in 1..Len(financial_liability_keys) |->
                                _b(self, financial_liability_keys[i])]
        has_any == \E i \in 1..Len(available_values) :
                      available_values[i] # None
        fin_liabilities == IF has_any
                           THEN Some(SumValid(self.balance,
                                              financial_liability_keys))
                           ELSE None
        value == _safe_divide(fin_liabilities, total_assets, 100, 2)
    IN  [value |-> value, financial_liabilities |-> fin_liabilities,
         total_assets |-> total_assets, components |-> available_values,
         available |-> value # None]

operating_liability_ratio(self) ==
    LET total_assets == _b(self, "total_assets")
        total_liabilities == _b(self, "total_liabilities")
        fin_liabilities == financial_liability_ratio(self).financial_liabilities
        op_liabilities == IF total_liabilities # None /\ fin_liabilities # None
                          THEN Some(FSub(total_liabilities[1],
                                         fin_liabilities[1]))
                          ELSE None
        value == _safe_divide(op_liabilities, total_assets, 100, 2)
    IN  [value |-> value, operating_liabilities |-> op_liabilities,
         total_assets |-> total_assets, available |-> value # None]

core_profit_cash_ratio(self) ==
    LET op_cash_flow == _cf(self, "net_operating_cash_flow")
        cp == _core_profit(self)
        value == _safe_divide(op_cash_flow, cp, 1, 4)
    IN  [value |-> value, net_operating_cash_flow |-> op_cash_flow,
         core_profit |-> cp, available |-> value # None]

\* the dict dupont_analysis returns has the key roe and no key value
dupont_analysis(self) ==
    LET net_profit == _i(self, "net_profit")
        revenue == _i(self, "revenue")
        avg_total_assets == _b_avg(self, "total_assets")
        avg_equity == _b_avg(self, "total_equity")
        revenue_ann == Annualized(self, revenue)
        net_profit_ann == Annualized(self, net_profit)
        net_profit_margin == _safe_divide(net_profit_ann, revenue_ann, 100, 2)
        asset_turnover == _safe_divide(revenue_ann, avg_total_assets, 1, 4)
        equity_multiplier == _safe_divide(avg_total_assets, avg_equity, 1, 4)
        roe_dupont ==
            IF /\ net_profit_margin # None
               /\ asset_turnover # None
               /\ equity_multiplier # None
            THEN Some(Round(FMul(FMul(net_profit_margin[1], asset_turnover[1]),
                                 equity_multiplier[1]), 2))
            ELSE None
    IN  [roe |-> roe_dupont,
         components |->
            [net_profit_margin |-> [value |-> net_profit_margin],
             asset_turnover |-> [value |-> asset_turnover],
             equity_multiplier |-> [value |-> equity_multiplier]],
         annualized |-> self.quarterly,
         available |-> roe_dupont # None]

compute_all(self) ==
    [gross_margin |-> gross_margin(self),
     core_profit_margin |-> core_profit_margin(self),
     return_on_total_assets |-> return_on_total_assets(self),
     return_on_equity |-> return_on_equity(self),
     inventory_turnover |-> inventory_turnover(self),
     fixed_asset_turnover |-> fixed_asset_turnover(self),
     operating_asset_turnover |-> operating_asset_turnover(self),
     current_ratio |-> current_ratio(self),
     debt_to_asset_ratio |-> debt_to_asset_ratio(self),
     financial_liability_ratio |-> financial_liability_ratio(self),
     operating_liability_ratio |-> operating_liability_ratio(self),
     core_profit_cash_ratio |-> core_profit_cash_ratio(self),
     dupont_analysis |-> dupont_analysis(self)]

(* The statements and report periods given to the ratio tool *)

IncomeStatements ==
    { EmptyDict,
      [revenue |-> Num(100), cost |-> Num(60), business_tax |-> Num(2),
       sales_expense |-> Num(5), admin_expense |-> Num(3),
       rd_expense |-> Raw("none", 0), finance_expense |-> Num(1),
       interest_expense |-> Num(0), total_profit |-> Num(12),
       net_profit |-> Num(10)],
      [revenue |-> Num(0), cost |-> Num(0), total_profit |-> Num(0),
       net_profit |-> Num(-3)],
      [revenue |-> Raw("text", 1200), cost |-> Raw("nan", 0),
       total_profit |-> Num(30), net_profit |-> Raw("word", 0),
       finance_expense |-> Raw("blank", 0)],
      [revenue |-> Num(100), cost |-> Num(100), total_profit |-> Num(-5),
       net_profit |-> Num(-5), interest_expense |-> Raw("other", 0)] }

BalanceSheets ==
    { EmptyDict,
      [total_assets |-> Num(400), total_equity |-> Num(200),
       inventory |-> Num(20), fixed_assets |-> Num(50),
       current_assets |-> Num(150), current_liabilities |-> Num(100),
       total_liabilities |-> Num(200),
       trading_financial_assets |-> Num(40),
       long_term_equity_investment |-> Num(60),
       short_term_borrowing |-> Num(30), bonds_payable |-> Num(20)],
      [total_assets |-> Num(0), total_equity |-> Num(0),
       inventory |-> Num(0), current_assets |-> Num(10),
       current_liabilities |-> Num(0), total_liabilities |-> Num(0),
       short_term_borrowing |-> Num(0)],
      [total_assets |-> Num(400), total_equity |-> Num(200),
       total_liabilities |-> Num(200), current_assets |-> Raw("nan", 0),
       current_liabilities |-> Num(100)],
      [total_assets |-> Num(100), total_equity |-> Num(-100),
       trading_financial_assets |-> Num(100),
       total_liabilities |-> Num(200), lease_liabilities |-> Num(50)] }

PreviousBalanceSheets ==
    { None,
      Some(EmptyDict),
      Some([total_assets |-> Num(200), total_equity |-> Num(100),
            inventory |-> Num(10), fixed_assets |-> Num(30)]) }

CashFlows ==
    { EmptyDict,
      [net_operating_cash_flow |-> Num(45)],
      [net_operating_cash_flow |-> Num(0)] }

RatioPeriods ==
    { Period("2024-03-31", TRUE, 3), Period("2024-06-30", TRUE, 6),
      Period("2024-09-30", TRUE, 9), Period("2024-12-31", TRUE, 12),
      Period("2024-05-31", TRUE, 5), Period("20240331", FALSE, 3),
      Period("", FALSE, 0) }

RatioIdle ==
    /\ ratio_in = NotCalled
    /\ ratio_out = NotCalled

RatioInputs ==
    /\ ratio_in \in [income_statement : IncomeStatements,
                     balance_sheet : BalanceSheets,
                     cash_flow : CashFlows,
                     previous_balance_sheet : PreviousBalanceSheets,
                     report_period : RatioPeriods]
    /\ ratio_out = NotCalled

\* ratios = calculate_financial_ratios_tool(income_statement, balance_sheet,
\*              cash_flow, previous_balance_sheet, report_period)
CalculateFinancialRatios ==
    /\ ratio_in # NotCalled
    /\ ratio_out = NotCalled
    /\ LET calculator == RatioCalculator(ratio_in.income_statement,
                             ratio_in.balance_sheet, ratio_in.cash_flow,
                             ratio_in.previous_balance_sheet,
                             ratio_in.report_period)
       IN  ratio_out' = [calculator |-> calculator,
                         ratios |-> compute_all(calculator)]
    /\ UNCHANGED <<ratio_in, ingestVars, wfVars, lazyVars, cancel, chunkVars,
                   growthVars>>

---------------------------------------------------------------------------
(* Growth rates: IndicatorExtractor._calculate_growth_rate and the growth  *)
(* tools of indicator_calculation_tools.py, called on one pair of values.  *)
(* Amounts are integers, rates are hundredths of a percent.                *)

MaxAmount == 3

Amounts == (0 - MaxAmount)..MaxAmount

\* calculate_revenue_growth_tool(current_revenue, previous_revenue):
\* current_revenue is a float, previous_revenue is optional
calculate_revenue_growth_tool(current_revenue, previous_revenue) ==
    LET growth_rate ==
            IF Truthy(previous_revenue) /\ previous_revenue[1] # 0
            THEN Some(RoundDiv((current_revenue[1] - previous_revenue[1])
                                   * 10000, Abs(previous_revenue[1])))
            ELSE None
    IN  [current |-> current_revenue, previous |-> previous_revenue,
         growth_rate |-> growth_rate]

GrowthIdle ==
    /\ growth_in = NotCalled
    /\ growth_out = NotCalled

GrowthInputs ==
    /\ growth_in \in [current : {None} \cup {Some(a) : a \in Amounts},
                      previous : {None} \cup {Some(a) : a \in Amounts}]
    /\ growth_out = <<>>

\* change = self._calculate_growth_rate(current, previous)
CalculateGrowthRate ==
    /\ growth_in # NotCalled
    /\ \A i \in 1..Len(growth_out) : growth_out[i].op # "_calculate_growth_rate"
    /\ growth_out' = Append(growth_out,
           [op |-> "_calculate_growth_rate",
            growth_rate |-> _calculate_growth_rate(growth_in.current,
                                                   growth_in.previous)])
    /\ UNCHANGED <<growth_in, wfVars, lazyVars, cancel, chunkVars, ingestVars,
                   ratioVars>>

\* calculate_revenue_growth_tool.invoke({"current_revenue": current,
\*     "previous_revenue": previous}), current being a number
CalculateRevenueGrowth ==
    /\ growth_in # NotCalled
    /\ growth_in.current # None
    /\ \A i \in 1..Len(growth_out) :
           growth_out[i].op # "calculate_revenue_growth_tool"
    /\ growth_out' = Append(growth_out,
           [op |-> "calculate_revenue_growth_tool",
            growth_rate |-> calculate_revenue_growth_tool(growth_in.current,
                                growth_in.previous).growth_rate])
    /\ UNCHANGED <<growth_in, wfVars, lazyVars, cancel, chunkVars, ingestVars,
                   ratioVars>>

---------------------------------------------------------------------------
(* The caller's cancellation signal.  generate_report passes no token,     *)
(* deadline or config to workflow.invoke, and no node and no edge of the   *)
(* graph reads one: the signal exists only on the caller's side.           *)

NodeNames == {"fetch_financial_data", "calculate_indicators",
              "retrieve_context", "analyze_core_indicators",
              "analyze_auxiliary_indicators", "analyze_specific_indicators",
              "generate_report", "quality_check"}

CancelInit == cancel = None

\* the caller raises the signal while the run is between Invoke and END; the
\* number of node executions started so far is remembered with it
Cancel ==
    /\ pc \in NodeNames
    /\ cancel = None
    /\ cancel' = Some(Len(executed))
    /\ UNCHANGED <<wfVars, lazyVars, chunkVars, ingestVars, ratioVars, growthVars>>

---------------------------------------------------------------------------
(* Specifications *)

WorkflowInit ==
    /\ pc = "start"
    /\ state = create_initial_state
    /\ result = NoResult
    /\ executed = <<>>

Init ==
    /\ WorkflowInit
    /\ LazyInit
    /\ CancelInit
    /\ ChunkIdle
    /\ IngestIdle
    /\ RatioIdle
    /\ GrowthIdle


Next ==
    \/ Invoke
    \/ FetchFinancialData
    \/ CalculateIndicators
    \/ RetrieveContext
    \/ AnalyzeCore
    \/ AnalyzeAuxiliary
    \/ AnalyzeSpecific
    \/ GenerateReport
    \/ QualityCheck
    \/ QualityCheckFails
    \/ Return
    \/ ReturnAfterException

Spec == Init /\ [][Next]_vars

\* a collaborator call that is made returns or raises, and the engine then
\* takes the next step
FairSpec == Spec /\ WF_vars(Next)

\* the accessor calls of concurrent invocations; the workflow variables are
\* at rest
LazySpec == Init /\ [][LazyNext]_vars

\* the workflow with a caller that may raise the cancellation signal
CancelNext ==
    \/ Next
    \/ Cancel

CancelSpec == Init /\ [][CancelNext]_vars

\* one call of chunk_text on any of the texts
ChunkInit ==
    /\ WorkflowInit
    /\ LazyInit
    /\ CancelInit
    /\ ChunkInputs
    /\ IngestIdle
    /\ RatioIdle
    /\ GrowthIdle

ChunkNext == ChunkText

ChunkSpec == ChunkInit /\ [][ChunkNext]_vars

\* the calls of the ingestion service on an empty collection, and the clock
IngestNext ==
    \/ IngestPdf
    \/ IngestMarkdown
    \/ DeleteReport
    \/ Tick

IngestSpec == Init /\ [][IngestNext]_vars

\* one call of the ratio tool on any of the statements
RatioInit ==
    /\ WorkflowInit
    /\ LazyInit
    /\ CancelInit
    /\ ChunkIdle
    /\ IngestIdle
    /\ RatioInputs
    /\ GrowthIdle

RatioNext == CalculateFinancialRatios

RatioSpec == RatioInit /\ [][RatioNext]_vars

\* the growth-rate calls on any pair of values
GrowthInit ==
    /\ WorkflowInit
    /\ LazyInit
    /\ CancelInit
    /\ ChunkIdle
    /\ IngestIdle
    /\ RatioIdle
    /\ GrowthInputs

GrowthNext ==
    \/ CalculateGrowthRate
    \/ CalculateRevenueGrowth

GrowthSpec == GrowthInit /\ [][GrowthNext]_vars

---------------------------------------------------------------------------
(* Claims about the workflow *)

Range(seq) == {seq[i] : i \in 1..Len(seq)}

\* the run ended through END and the result was built from the final state
ReturnedNormally == pc = "returned" /\ ~QualityCheckRaises(state)

\* the run ended in the except branch of generate_report
ReturnedAfterException == pc = "returned" /\ QualityCheckRaises(state)

\* C1: in every reachable state of a run regeneration_count is at most 2 and
\* the generate_report node has executed at most 3 times
C1_RegenerationBounded ==
    /\ state.regeneration_count <= 2
    /\ Executions("generate_report") <= 3

\* C1 witness: a run that ended after two regenerations, three generations
C1_Witness ==
    /\ pc = "returned"
    /\ state.regeneration_count = 2
    /\ Executions("generate_report") = 3

RegenerationRule(before, after, next) ==
    LET low == Score(before.final_report) < 60 /\ before.regeneration_count < 2
    IN /\ after.should_regenerate = low
       /\ after.regeneration_count =
             before.regeneration_count + (IF low THEN 1 ELSE 0)
       /\ (next = "generate_report") <=> after.should_regenerate

\* C3 as stated: at every execution of quality_check, for every text in
\* final_report (the empty string included), a score below 60 with
\* regeneration_count below 2 sets should_regenerate and adds 1 to
\* regeneration_count, anything else clears should_regenerate and leaves the
\* count, and the run goes back to generate_report iff should_regenerate
C3_AsStated ==
    [][(pc = "quality_check" /\ state.final_report.kind = "str")
          => RegenerationRule(state, state', pc')]_vars

\* C3 amended: the rule holds for every non-empty text; for the empty string
\* quality_check clears should_regenerate, leaves regeneration_count and the
\* run ends
C3_Amended ==
    [][(pc = "quality_check" /\ state.final_report.kind = "str")
          => IF IsEmptyReport(state.final_report)
             THEN /\ ~state'.should_regenerate
                  /\ state'.regeneration_count = state.regeneration_count
                  /\ pc' = "END"
             ELSE RegenerationRule(state, state', pc')]_vars

\* C3 witness: quality_check asked for a regeneration once and then ended
\* the run on an empty report
C3_Witness ==
    /\ pc = "END"
    /\ IsEmptyReport(state.final_report)
    /\ state.regeneration_count = 1
    /\ ~state.should_regenerate

Pipeline ==
    <<"fetch_financial_data", "calculate_indicators", "retrieve_context",
      "analyze_core_indicators", "analyze_auxiliary_indicators",
      "analyze_specific_indicators", "generate_report", "quality_check">>

RECURSIVE Regenerations(_)
Regenerations(n) ==
    IF n = 0 THEN <<>>
    ELSE Regenerations(n - 1) \o <<"generate_report", "quality_check">>

\* C4: nodes run one at a time in pipeline order, every execution is logged
\* in processing_steps, and when the run has ended processing_steps is the
\* eight node names in order followed by regeneration_count repetitions of
\* (generate_report, quality_check)
C4_StepsInOrder ==
    /\ state.processing_steps = executed
    /\ Len(executed) <= 8 => executed = SubSeq(Pipeline, 1, Len(executed))
    /\ pc \in {"END", "raised", "returned"} =>
          state.processing_steps =
              Pipeline \o Regenerations(state.regeneration_count)

\* C4 witness: a run that had an error at the fetch, skipped the calculation
\* and ended after one regeneration
C4_Witness ==
    /\ pc = "returned"
    /\ state.income_statement = None
    /\ state.regeneration_count = 1
    /\ Len(state.processing_steps) = 10

ResultKeys ==
    {"success", "report", "indicators", "processing_time", "llm_calls",
     "tools_called", "processing_steps", "quality_score", "errors",
     "warnings"}

\* C5 as stated: every result generate_report returns, the one returned
\* when the workflow raises included, has all ten keys
C5_AsStated == pc = "returned" => ResultKeys \subseteq DOMAIN result

\* C5 amended: every call returns a result with success and processing_time;
\* a result built from the final state has all ten keys; the result returned
\* when the workflow raises has success = false and an error entry and none
\* of the other eight keys
C5_Amended ==
    pc = "returned" =>
        /\ {"success", "processing_time"} \subseteq DOMAIN result
        /\ ReturnedNormally => ResultKeys \subseteq DOMAIN result
        /\ ReturnedAfterException =>
              /\ ~result.success
              /\ "error" \in DOMAIN result
              /\ DOMAIN result \cap ResultKeys = {"success", "processing_time"}

\* C5 witness: a call whose workflow raised in quality_check
C5_Witness ==
    /\ pc = "returned"
    /\ state.current_step = "quality_check"
    /\ "error" \in DOMAIN result

\* C6: success is true iff the result carries an errors list and it is
\* empty; the result carries the final report and the final errors, and
\* warnings play no part
C6_SuccessIffNoErrors ==
    pc = "returned" =>
        /\ result.success <=>
              ("errors" \in DOMAIN result /\ result.errors = <<>>)
        /\ ReturnedNormally =>
              /\ result.errors = state.errors
              /\ result.report = state.final_report
              /\ result.warnings = state.warnings

\* C6 witness: a partial success, errors and a report that is not empty,
\* with a warning as well
C6_Witness ==
    /\ ReturnedNormally
    /\ ~result.success
    /\ result.errors # <<>>
    /\ ~IsEmptyReport(result.report)
    /\ result.report # ReportFailedText
    /\ result.warnings # <<>>

\* the run has ended, by END or by an exception
Ended == pc \in {"END", "raised", "returned"}

NoIndicators ==
    /\ state.core_indicators = EmptyDict
    /\ state.auxiliary_indicators = EmptyDict
    /\ state.specific_indicators = EmptyDict
    /\ state.all_indicators \in
          {EmptyDict,
           [core |-> EmptyDict, auxiliary |-> EmptyDict,
            specific |-> EmptyDict]}

\* the fetch has run and left no income statement in the state
NoIncomeStatement == Len(executed) >= 1 /\ state.income_statement = None

\* C7: when the fetch yields no income statement it appends exactly one
\* error, calculate_indicators calls no calculator (it adds no error, the
\* buckets stay empty, calculate_all_indicators_tool is not in tools_called),
\* retrieve_context still runs and the result has success = false
C7_NoIncomeStatement ==
    NoIncomeStatement =>
        /\ pc \in {"calculate_indicators", "retrieve_context"} =>
              Len(state.errors) = 1
        /\ NoIndicators
        /\ "calculate_all_indicators_tool" \notin Range(state.tools_called)
        /\ Ended => "retrieve_context" \in Range(executed)
        /\ pc = "returned" => ~result.success

\* C7 witness: the upstream answered without an income statement and the
\* run returned
C7_Witness ==
    /\ pc = "returned"
    /\ NoIncomeStatement
    /\ "get_complete_financial_data_tool" \in Range(state.tools_called)
    /\ "retrieve_context" \in Range(executed)
    /\ Len(state.errors) = 1
    /\ ~result.success

\* the fetch has run and returned statements whose fields are all null
AllFieldsNull ==
    /\ Len(executed) >= 1
    /\ state.income_statement = IncomeAllNull
    /\ state.balance_sheet = BalanceAllNull
    /\ state.cash_flow = CashAllNull

\* C8 as stated: with statements whose fields are all null no indicator is
\* available, all nodes run and the result has success = false
C8_AsStated ==
    AllFieldsNull =>
        /\ NoIndicators
        /\ Ended => Range(Pipeline) \subseteq Range(executed)
        /\ pc = "returned" => ~result.success

\* C8 amended: with statements whose fields are all null no indicator is
\* available and all eight nodes run; null fields are no error, so the only
\* errors are a failed calculator call or a failed report generation, and
\* the result built from the final state has success = true iff neither
\* happened
C8_Amended ==
    AllFieldsNull =>
        /\ NoIndicators
        /\ Ended => Range(Pipeline) \subseteq Range(executed)
        /\ Range(state.errors) \subseteq
              {"calculate_indicators_failed", "generate_report_failed"}
        /\ pc = "returned" =>
              (result.success <=> (ReturnedNormally /\ state.errors = <<>>))

\* C8 witness: a run on all-null statements that returned success = true
C8_Witness ==
    /\ ReturnedNormally
    /\ AllFieldsNull
    /\ "calculate_all_indicators_tool" \in Range(state.tools_called)
    /\ result.success

\* a warning that is neither of the two the nodes record for a failed
\* retrieval and a failed specific analysis
IsQualityWarning(w) ==
    w \notin {"retrieve_context_failed", "specific_analysis_failed"}

\* C9: a run without errors whose report still scores below 60 at the
\* quality check reached with regeneration_count = 2 returns success = true
\* and the report generated last, and its warnings contain a quality warning
C9_QualityWarning ==
    (/\ ReturnedNormally
     /\ state.errors = <<>>
     /\ state.regeneration_count = 2
     /\ Executions("generate_report") = 3
     /\ ~IsEmptyReport(state.final_report)
     /\ Score(state.final_report) < 60)
    => /\ result.success
       /\ result.report = state.final_report
       /\ result.report.id = 3
       /\ \E w \in Range(result.warnings) : IsQualityWarning(w)

---------------------------------------------------------------------------
(* Claims about the lazily initialised clients *)

\* C10: under concurrent first calls every client is constructed at most
\* once and all callers of an accessor receive the same instance
C10_SingleInstance ==
    /\ \A a \in Accessors : built[a] <= 1
    /\ \A c1, c2 \in Callers :
          (/\ caller[c1].at = "done"
           /\ caller[c2].at = "done"
           /\ caller[c1].acc = caller[c2].acc)
          => caller[c1].got = caller[c2].got

---------------------------------------------------------------------------
(* Claims about cancellation *)

\* C11: once the cancellation signal has been raised during a run, at most
\* the node in flight when it was raised still runs: no node starts after
\* the node boundary that follows the signal, the run ends there, and the
\* cancellation is not recorded in errors
C11_CancelStopsRun ==
    cancel # None
    => /\ Len(executed) <= cancel[1] + 1
       /\ "cancelled" \notin Range(state.errors)

---------------------------------------------------------------------------
(* Claims about the Markdown chunker *)

Called == chunk_out # NotCalled

\* the part of a chunk's text after the composed heading lines
RECURSIVE AfterBlankLine(_)
AfterBlankLine(text) ==
    IF Len(text) < 2 THEN <<>>
    ELSE IF text[1].k = "nl" /\ text[2].k = "nl"
         THEN SubSeq(text, 3, Len(text))
         ELSE AfterBlankLine(Tail(text))

ChunkBody(c) ==
    IF c.title_level = 0 THEN c.chunk_text ELSE AfterBlankLine(c.chunk_text)

\* the numbers of the words and tables of a text, in order
RECURSIVE Numbers(_)
Numbers(text) ==
    IF text = <<>> THEN <<>>
    ELSE IF Head(text).k \in {"text", "table"}
         THEN <<Head(text).n>> \o Numbers(Tail(text))
         ELSE Numbers(Tail(text))

RECURSIVE BodyNumbers(_)
BodyNumbers(chunks) ==
    IF chunks = <<>> THEN <<>>
    ELSE Numbers(ChunkBody(Head(chunks))) \o BodyNumbers(Tail(chunks))

Increasing(ns) == \A i \in 1..Len(ns) - 1 : ns[i] < ns[i + 1]

\* the input has a heading and, besides headings, only blank lines
HeadingOnlyInput ==
    LET lines == SplitLines(chunk_in.text)
    IN  /\ \E i \in 1..Len(lines) : IsHeadingLine(Strip(lines[i]))
        /\ \A i \in 1..Len(lines) :
              Strip(lines[i]) = <<>> \/ IsHeadingLine(Strip(lines[i]))

\* C12: every <table>...</table> span of the input is the whole chunk_text
\* of exactly one chunk, of type table, with no heading line before it, and
\* is in no other chunk
C12_TablesVerbatim ==
    Called =>
      \A j \in 1..Len(chunk_in.text) :
         chunk_in.text[j].k = "table" =>
            LET span == <<chunk_in.text[j]>>
                chunks == chunk_out.chunks
            IN  /\ Cardinality({i \in 1..Len(chunks) :
                         /\ chunks[i].chunk_text = span
                         /\ chunks[i].chunk_type = "table"}) = 1
                /\ \A i \in 1..Len(chunks) :
                      chunk_in.text[j] \in Range(chunks[i].chunk_text)
                      => chunks[i].chunk_text = span

\* C13: the chunks carry chunk_index 0, 1, ..., N-1 in list order and
\* chunk_id "ck_" + chunk_index, their bodies follow the order of the
\* source, and an input of headings only yields the single chunk 0
C13_DenseIndex ==
    Called =>
      LET chunks == chunk_out.chunks
      IN  /\ \A i \in 1..Len(chunks) :
                /\ chunks[i].chunk_index = i - 1
                /\ chunks[i].chunk_id = [prefix |-> "ck_", index |-> i - 1]
          /\ Increasing(BodyNumbers(chunks))
          /\ HeadingOnlyInput => Len(chunks) = 1

\* C13 witness: a call that returned three chunks or more
C13_Witness ==
    /\ Called
    /\ Len(chunk_out.chunks) >= 3

\* the sentences of a text as SENTENCE_PATTERN sees them
SentencesOf(text) == StripAll(FindSentences(text, <<>>))

\* the input is the given number of heading lines followed by one paragraph
ParagraphUnderHeadings(h) ==
    LET blocks == _split_into_blocks(_extract_tables(chunk_in.text).safe_text)
    IN  /\ Len(blocks) = h + 1
        /\ \A i \in 1..h : blocks[i].type = "heading"
        /\ blocks[h + 1].type = "paragraph"

TheParagraph ==
    LET blocks == _split_into_blocks(_extract_tables(chunk_in.text).safe_text)
    IN  Strip(blocks[Len(blocks)].text)

\* C14: the body of a chunk that is no table has at most max_chunk_chars
\* characters unless it is one sentence or one code block; a paragraph of
\* two sentences or more that is longer than max_chunk_chars and lies under
\* a heading gives two chunks or more, each starting with the heading line
C14_BodyBounded ==
    Called =>
      LET chunks == chunk_out.chunks
          M == chunk_in.max_chunk_chars
      IN  /\ \A i \in 1..Len(chunks) :
                chunks[i].chunk_type # "table" =>
                   LET body == ChunkBody(chunks[i])
                   IN  \/ TextLen(body) <= M
                       \/ Len(SentencesOf(body)) <= 1
                       \/ body[1].k = "fence"
          /\ (/\ ParagraphUnderHeadings(1)
              /\ Len(SentencesOf(TheParagraph)) >= 2
              /\ TextLen(TheParagraph) > M)
             => /\ Len(chunks) >= 2
                /\ \A i \in 1..Len(chunks) :
                      /\ Len(chunks[i].chunk_text) >= 3
                      /\ SubSeq(chunks[i].chunk_text, 1, 3)
                           = SubSeq(Strip(chunk_in.text), 1, 3)

\* the words of a text, in order
RECURSIVE Words(_)
Words(text) ==
    IF text = <<>> THEN <<>>
    ELSE IF Head(text).k = "text"
         THEN <<Head(text)>> \o Words(Tail(text))
         ELSE Words(Tail(text))

\* a text with no sentence terminator before its end
SingleSentence(text) == \A i \in 1..Len(text) - 1 : ~text[i].term

\* C15: a text that is one paragraph of exactly max_chunk_chars characters
\* gives one chunk; one of max_chunk_chars + 1 characters gives one chunk
\* equal to the paragraph when it is a single sentence, and otherwise two
\* chunks that together hold all its words, the first ending with the end
\* of a sentence
C15_ParagraphBoundary ==
    (Called /\ ParagraphUnderHeadings(0)) =>
      LET chunks == chunk_out.chunks
          M == chunk_in.max_chunk_chars
          P == TheParagraph
      IN  /\ TextLen(P) = M => Len(chunks) = 1
          /\ (TextLen(P) = M + 1 /\ SingleSentence(P))
             => /\ Len(chunks) = 1
                /\ chunks[1].chunk_text = P
          /\ (TextLen(P) = M + 1 /\ ~SingleSentence(P))
             => /\ Len(chunks) = 2
                /\ Words(chunks[1].chunk_text) \o Words(chunks[2].chunk_text)
                     = Words(P)
                /\ chunks[1].chunk_text[Len(chunks[1].chunk_text)].term

\* C16: the chunk_text of every chunk is non-empty after trimming and has
\* at most 8192 bytes in UTF-8
C16_ChunkTextCapped ==
    Called =>
      \A i \in 1..Len(chunk_out.chunks) :
         /\ Strip(chunk_out.chunks[i].chunk_text) # <<>>
         /\ TextBytes(chunk_out.chunks[i].chunk_text) <= 8192

---------------------------------------------------------------------------
(* Claims about the ingestion service *)

Succeeded(call) == "status" \in DOMAIN call.result

\* the calls made so far that name the report
CallsOn(report_id) ==
    {i \in 1..Len(ingest_out) : ingest_out[i].report_id = report_id}

\* so far the report was named by two calls only, both of them ingestions
\* of one and the same file that succeeded
SameFilingTwice(report_id) ==
    /\ Cardinality(CallsOn(report_id)) = 2
    /\ \A i \in CallsOn(report_id) :
          /\ ingest_out[i].op = "ingest_pdf"
          /\ Succeeded(ingest_out[i])
    /\ \A i, j \in CallsOn(report_id) : ingest_out[i].file = ingest_out[j].file

RowsOf(rows, report_id) == SelectSeq(rows, LAMBDA r : r.report_id = report_id)

ChunkIdsOf(rows, report_id) ==
    {RowsOf(rows, report_id)[i].chunk_id :
        i \in 1..Len(RowsOf(rows, report_id))}

StoredReportIds == {collection[i].report_id : i \in 1..Len(collection)}

\* C17: after the same filing was ingested twice for one company_code and
\* report_period, at any two times, no two stored rows share report_id and
\* chunk_index, and the report has as many chunk_ids as it has chunks
C17_StableIdentity ==
    \A report_id \in StoredReportIds :
       SameFilingTwice(report_id) =>
          LET rows == RowsOf(collection, report_id)
              first == ingest_out[CHOOSE i \in CallsOn(report_id) : TRUE]
          IN  /\ \A i, j \in 1..Len(rows) :
                    rows[i].chunk_index = rows[j].chunk_index => i = j
              /\ Cardinality(ChunkIdsOf(collection, report_id))
                   = first.result.chunks_count

\* the step is a call of ingest_markdown on an existing file for which the
\* chunker yields one chunk or more, while the embedding service and Milvus
\* answer
MarkdownIngested ==
    /\ Len(ingest_out') = Len(ingest_out) + 1
    /\ ingest_out'[Len(ingest_out')].op = "ingest_markdown"
    /\ ingest_out'[Len(ingest_out')].file.exists
    /\ ingest_out'[Len(ingest_out')].services_ok
    /\ ingest_out'[Len(ingest_out')].chunks >= 1

\* C18: ingest_markdown on an existing file that yields N >= 1 chunks adds
\* exactly N rows to the collection, one per chunk in source order, each
\* with the report_id of the call, and returns status success and
\* total_chunks = N
C18_MarkdownInserts ==
    [][MarkdownIngested =>
         LET call == ingest_out'[Len(ingest_out')]
             N == call.chunks
         IN  /\ Len(collection') = Len(collection) + N
             /\ SubSeq(collection', 1, Len(collection)) = collection
             /\ \A i \in 1..N :
                   /\ collection'[Len(collection) + i].report_id
                        = call.report_id
                   /\ collection'[Len(collection) + i].chunk_text
                        = call.file.chunks[i].str
             /\ Succeeded(call)
             /\ call.result.status = "success"
             /\ "total_chunks" \in DOMAIN call.result
             /\ call.result.total_chunks = N]_vars

---------------------------------------------------------------------------
(* Claims about the financial ratio tool *)

Computed == ratio_out # NotCalled

RatioKeys ==
    {"gross_margin", "core_profit_margin", "return_on_total_assets",
     "return_on_equity", "inventory_turnover", "fixed_asset_turnover",
     "operating_asset_turnover", "current_ratio", "debt_to_asset_ratio",
     "financial_liability_ratio", "operating_liability_ratio",
     "core_profit_cash_ratio"}

\* indicator.get("value")
ValueOf(indicator) ==
    IF "value" \in DOMAIN indicator THEN indicator.value ELSE None

FactorTable(month) ==
    CASE month = 3 -> Number(4)
      [] month = 6 -> Number(2)
      [] month = 9 -> Frac(4, 3)
      [] month = 12 -> Number(1)

\* C20: the factor is 4, 2, 4/3 and 1 for the months 3, 6, 9 and 12 of the
\* report_period, and an indicator with annualized = true has had its flow
\* input multiplied by the table entry of an interim month
C20_FactorTable ==
    Computed =>
      LET self == ratio_out.calculator
          month == self.report_period.month
          roe == ratio_out.ratios.return_on_equity
          net_profit == _i(self, "net_profit")
      IN  /\ month \in {3, 6, 9, 12} => self.ann = FactorTable(month)
          /\ roe.annualized =>
                /\ month \in {3, 6, 9}
                /\ net_profit # None =>
                      roe.net_profit_annualized
                        = Some(FMul(net_profit[1], FactorTable(month)))

---------------------------------------------------------------------------
(* Claims about the growth rate *)

GrowthCalls == {growth_out[i] : i \in 1..Len(growth_out)}

\* (current - previous) / base x 100, rounded to two decimals
GrowthFormula(base) ==
    Some(RoundDiv((growth_in.current[1] - growth_in.previous[1]) * 10000, base))

NegativeBase ==
    /\ growth_in.current # None
    /\ growth_in.previous # None
    /\ growth_in.previous[1] < 0

---------------------------------------------------------------------------
(* Further claims about the workflow *)

\* a step in which the engine calls a node on the dict `state`; every node
\* works on that dict and ends with `return state`, so state' is at once the
\* dict the node returned and the dict it received, as it is after the call
NodeCall == Len(executed') = Len(executed) + 1

Bookkeeping(s) ==
    <<s.processing_steps, s.errors, s.warnings, s.tools_called, s.llm_calls,
      s.regeneration_count>>

\* C22: the processing_steps, errors, warnings and tools_called lists and
\* the counters of the dict a node receives are the same after the node call
\* as before it
C22_InputUnchanged == [][NodeCall => Bookkeeping(state') = Bookkeeping(state)]_vars

\* the node the engine has called in this step
CalledNode == executed'[Len(executed')]

\* the tool invocations node `name` makes when it is called on s
\* (data_nodes.py:31, 77; calculation_nodes.py:26-38)
ToolInvocations(name, s) ==
    CASE name = "fetch_financial_data" -> <<"get_complete_financial_data_tool">>
      [] name = "retrieve_context" -> <<"get_context_for_analysis_tool">>
      [] name = "calculate_indicators" ->
            IF s.errors = <<>> THEN <<"calculate_all_indicators_tool">>
            ELSE <<>>
      [] OTHER -> <<>>

\* the number of chain.invoke calls node `name` makes when it is called on s
\* (analysis_nodes.py:46-78, 114-150, 193-225; report_nodes.py:67)
LLMInvocations(name, s) ==
    CASE name = "analyze_core_indicators" ->
            IF s.core_indicators = EmptyDict THEN 0 ELSE 1
      [] name = "analyze_auxiliary_indicators" ->
            IF s.auxiliary_indicators = EmptyDict THEN 0 ELSE 1
      [] name = "analyze_specific_indicators" ->
            IF s.specific_indicators = EmptyDict THEN 0 ELSE 1
      [] name = "generate_report" -> 1
      [] OTHER -> 0

\* C23: tools_called holds one entry for every tool invocation made so far,
\* in invocation order, whether the invocation returned or raised, and
\* llm_calls is the number of LLM invocations made so far.  Both start empty
\* and at 0, so this is: every node call appends to tools_called the tools
\* it invokes and adds to llm_calls the LLM invocations it makes
C23_EveryInvocationCounted ==
    [][NodeCall =>
         /\ state'.tools_called =
                state.tools_called \o ToolInvocations(CalledNode, state)
         /\ state'.llm_calls =
                state.llm_calls + LLMInvocations(CalledNode, state)]_vars

\* the engine has called retrieve_context and the retrieval has failed: the
\* tool has not returned a context
RetrievalFails ==
    /\ NodeCall
    /\ CalledNode = "retrieve_context"
    /\ state'.tools_called = state.tools_called

\* the one failure of the run is the failed retrieval: the two other tools
\* have returned, the one warning is the retrieval's, and every execution of
\* the three analysis nodes and of generate_report has counted an LLM call
OnlyRetrievalFailed ==
    /\ ReturnedNormally
    /\ "get_context_for_analysis_tool" \notin Range(state.tools_called)
    /\ Len(state.warnings) = 1
    /\ Len(state.tools_called) = 2
    /\ state.llm_calls = Len(state.processing_steps) - 4 - state.regeneration_count

\* C25: a failed retrieval appends exactly one entry to warnings, leaves
\* errors unchanged, sets milvus_context to the empty string, and the run
\* goes on with the first analysis node; a run whose only failure is the
\* failed retrieval returns success = true
C25_RetrievalFailureIsWarning ==
    /\ [][RetrievalFails =>
            /\ Len(state'.warnings) = Len(state.warnings) + 1
            /\ SubSeq(state'.warnings, 1, Len(state.warnings)) = state.warnings
            /\ state'.errors = state.errors
            /\ state'.milvus_context = ""
            /\ pc' = "analyze_core_indicators"]_vars
    /\ [](OnlyRetrievalFailed => result.success)

\* C25 witness: a run that lost its context and returned success = true
C25_Witness ==
    /\ OnlyRetrievalFailed
    /\ result.success
    /\ state.milvus_context = ""
    /\ state.warnings = <<"retrieve_context_failed">>

\* the bucket, the analysis field and the insufficient-data text of the
\* three analysis nodes
AnalysisNodes ==
    {[node |-> "analyze_core_indicators", bucket |-> "core_indicators",
      analysis |-> "core_analysis", text |-> "core_indicators_missing"],
     [node |-> "analyze_auxiliary_indicators",
      bucket |-> "auxiliary_indicators", analysis |-> "auxiliary_analysis",
      text |-> "auxiliary_indicators_missing"],
     [node |-> "analyze_specific_indicators",
      bucket |-> "specific_indicators", analysis |-> "specific_analysis",
      text |-> "no_specific_indicators"]}

\* the engine has called analysis node a on an empty bucket
RunsOnEmptyBucket(a) ==
    /\ NodeCall
    /\ CalledNode = a.node
    /\ state[a.bucket] = EmptyDict

\* C26: an analysis node that runs on an empty bucket stores its fixed
\* insufficient-data text as the analysis and leaves llm_calls, errors,
\* warnings and tools_called unchanged; it makes no LLM call, i.e. the state
\* it returns is the one it would return for an LLM that answers
C26_EmptyBucketSkipsLLM ==
    [][\A a \in AnalysisNodes :
          RunsOnEmptyBucket(a) =>
             /\ state'[a.analysis] = a.text
             /\ state'.llm_calls = state.llm_calls
             /\ state'.errors = state.errors
             /\ state'.warnings = state.warnings
             /\ state'.tools_called = state.tools_called
             /\ state' = [Enter(state, a.node) EXCEPT ![a.analysis] = a.text]]_vars

\* C26 witness: the three analysis nodes have run on three empty buckets
C26_Witness ==
    /\ pc = "generate_report"
    /\ state.core_analysis = "core_indicators_missing"
    /\ state.auxiliary_analysis = "auxiliary_indicators_missing"
    /\ state.specific_analysis = "no_specific_indicators"
    /\ state.llm_calls = 0

\* list `before` is the beginning of list `after`
IsPrefix(before, after) ==
    /\ Len(before) <= Len(after)
    /\ SubSeq(after, 1, Len(before)) = before

\* C27: errors, warnings, processing_steps and tools_called only ever grow,
\* llm_calls and regeneration_count never decrease, and once an error has
\* been recorded the run returns success = false, whatever comes later
C27_MonotoneBookkeeping ==
    /\ [][/\ IsPrefix(state.errors, state'.errors)
          /\ IsPrefix(state.warnings, state'.warnings)
          /\ IsPrefix(state.processing_steps, state'.processing_steps)
          /\ IsPrefix(state.tools_called, state'.tools_called)
          /\ state'.llm_calls >= state.llm_calls
          /\ state'.regeneration_count >= state.regeneration_count]_vars
    /\ [](state.errors # <<>> => [](pc = "returned" => ~result.success))

\* C27 witness: an error was recorded, a regenerated report passed the
\* quality check, and the run returned success = false
C27_Witness ==
    /\ ReturnedNormally
    /\ state.errors # <<>>
    /\ state.regeneration_count >= 1
    /\ state.report_quality_score >= PassScore
    /\ result.report = state.final_report
    /\ ~result.success

\* the number of entries generate_report has added to errors
ReportFailures ==
    Cardinality({i \in 1..Len(state.errors) :
                    state.errors[i] = "generate_report_failed"})

\* the LLM call of the last node execution, generate_report, has failed
ReportCallFailed ==
    /\ pc = "quality_check"
    /\ state.final_report = ReportFailedText
    /\ state.errors # <<>>
    /\ state.errors[Len(state.errors)] = "generate_report_failed"

\* the LLM call has failed in every execution of generate_report
EveryReportCallFailed ==
    /\ Executions("generate_report") >= 1
    /\ ReportFailures = Executions("generate_report")

\* C28: when the LLM call of generate_report fails while regeneration_count
\* is below 2, the quality_check that follows scores the failure text below
\* 60 and sends the run back to generate_report; a run in which every such
\* call failed has executed generate_report 3 times and returns with
\* regeneration_count = 2, three generate_report entries in errors, the
\* failure text as final_report and success = false
C28_FailingLLMRetriedTwice ==
    /\ [][(ReportCallFailed /\ state.regeneration_count < 2 /\ NodeCall) =>
             /\ state'.report_quality_score < PassScore
             /\ state'.should_regenerate
             /\ state'.regeneration_count = state.regeneration_count + 1
             /\ pc' = "generate_report"]_vars
    /\ []((pc = "returned" /\ EveryReportCallFailed) =>
             /\ Executions("generate_report") = 3
             /\ state.regeneration_count = 2
             /\ ReportFailures = 3
             /\ state.final_report = ReportFailedText
             /\ result.report = ReportFailedText
             /\ ~result.success)

\* C28 witness: the run has returned after three failed report calls
C28_Witness ==
    /\ pc = "returned"
    /\ EveryReportCallFailed
    /\ ReportFailures = 3
    /\ state.llm_calls = 3

---------------------------------------------------------------------------
(* Further claims about the chunker *)

\* the heading blocks of the input, in order
InputHeadings ==
    SelectSeq(_split_into_blocks(_extract_tables(chunk_in.text).safe_text),
              LAMBDA b : b.type = "heading")

\* the heading stack after the first k headings of the input
RECURSIVE StackAfter(_)
StackAfter(k) ==
    IF k = 0 THEN <<>>
    ELSE _update_heading_stack(StackAfter(k - 1), InputHeadings[k])

\* the headings of hs that no later heading of hs closes: a heading is
\* closed by a later heading of its own level or of a level above it
RECURSIVE OpenHeadings(_)
OpenHeadings(hs) ==
    IF hs = <<>> THEN <<>>
    ELSE IF \E j \in 2..Len(hs) : hs[j].level <= hs[1].level
         THEN OpenHeadings(Tail(hs))
         ELSE <<hs[1]>> \o OpenHeadings(Tail(hs))

\* the titles of the headings open after the first k headings of the input
OpenTitles(k) ==
    LET open == OpenHeadings(SubSeq(InputHeadings, 1, k))
    IN  [i \in 1..Len(open) |-> open[i].heading_text]

\* the number of headings of the input that stand before the body of chunk
\* c, when a word or a table of the body tells its place in the input
HeadingsBefore(c) ==
    LET ns == Numbers(ChunkBody(c))
    IN  Cardinality({j \in 1..Len(InputHeadings) :
            \A i \in 1..Len(InputHeadings[j].heading_text) :
                InputHeadings[j].heading_text[i].n < ns[1]})

\* C24: the heading stack holds strictly increasing levels after every
\* heading; the title_path of a chunk is the list of the headings open where
\* its body stands (of all the open headings for the chunk of a document of
\* headings only), title_level is at least 1 iff that list is not empty, and
\* an input without headings gives title_level 0 and an empty title on every
\* chunk
C24_TitlePathIsHeadingStack ==
    Called =>
      LET chunks == chunk_out.chunks
          H == Len(InputHeadings)
      IN  /\ \A k \in 0..H :
                LET stack == StackAfter(k)
                IN  /\ \A i \in 1..Len(stack) - 1 :
                          stack[i].level < stack[i + 1].level
                    /\ TitlePath(stack) = OpenTitles(k)
          /\ \A i \in 1..Len(chunks) :
                LET c == chunks[i]
                IN  /\ \E k \in 0..H :
                          /\ c.title_path = OpenTitles(k)
                          /\ c.title_level >= 1 <=> OpenTitles(k) # <<>>
                          /\ Numbers(ChunkBody(c)) # <<>> =>
                                k = HeadingsBefore(c)
                          /\ Numbers(ChunkBody(c)) = <<>> /\ Len(chunks) = 1 /\
                             H >= 1 /\ c.chunk_type = "other" /\
                             ChunkBody(c) = <<>> => k = H
                    /\ H = 0 => c.title_level = 0 /\ c.title = <<>>

\* C24 witness: a second-level heading closed by a first-level heading, and
\* a chunk under that one
C24_Witness ==
    /\ Called
    /\ Len(InputHeadings) = 2
    /\ InputHeadings[1].level > InputHeadings[2].level
    /\ Len(chunk_out.chunks) = 1
    /\ chunk_out.chunks[1].title_level = 1
    /\ Numbers(ChunkBody(chunk_out.chunks[1])) # <<>>

\* the paragraph and list blocks of the input that are longer than
\* max_chunk_chars
LongBlocks ==
    LET blocks == _split_into_blocks(_extract_tables(chunk_in.text).safe_text)
    IN  {blocks[i] : i \in {j \in 1..Len(blocks) :
            /\ blocks[j].type \in {"paragraph", "list"}
            /\ TextLen(Strip(blocks[j].text)) > chunk_in.max_chunk_chars}}

\* the characters of a text that are no whitespace, in order
NonSpace(text) == SelectSeq(text, LAMBDA t : ~IsSpace(t))

\* segments[0] + segments[1] + ...
RECURSIVE Concat(_)
Concat(segments) ==
    IF segments = <<>> THEN <<>>
    ELSE Head(segments) \o Concat(Tail(segments))

\* C29: for every paragraph or list block longer than max_chunk_chars, of
\* one line or of several, the segments of _split_by_sentence concatenated
\* in order hold every non-whitespace character of the block, in its order
C29_SplitLosesNoText ==
    Called =>
      \A block \in LongBlocks :
          NonSpace(Concat(_block_to_segments(block, chunk_in.max_chunk_chars)))
             = NonSpace(block.text)

\* the token is somewhere in the text
Holds(text, token) == \E i \in 1..Len(text) : text[i] = token

\* the placeholders "[[TABLE_BLOCK_n]]" of a text
PlaceholdersOf(text) == {text[i] : i \in {j \in 1..Len(text) : text[j].k = "ph"}}

\* C30: every <table>...</table> span of the input is, as it stands, in
\* the chunk_text of exactly one chunk, and a chunk holds a placeholder
\* [[TABLE_BLOCK_n]] only if the input text holds it; a table between code
\* fences is no exception
C30_TablesRestored ==
    Called =>
      LET chunks == chunk_out.chunks
      IN  /\ \A j \in 1..Len(chunk_in.text) :
                chunk_in.text[j].k = "table" =>
                   Cardinality({i \in 1..Len(chunks) :
                       Holds(chunks[i].chunk_text, chunk_in.text[j])}) = 1
          /\ \A i \in 1..Len(chunks) :
                PlaceholdersOf(chunks[i].chunk_text)
                   \subseteq PlaceholdersOf(chunk_in.text)

====
